---- MODULE Spec2Model ----
(***************************************************************************)
(* Model of the fuzzy scorer (vs/base/common/scorer):  score, scoreFile    *)
(* and compareFilesByScore.                                                *)
(*                                                                         *)
(* A string is a sequence of UTF-16 code units (numbers).  Indices into a  *)
(* string are 0-based as in the source: the character at index i of s is   *)
(* s[i + 1].  A Score is the pair <<score, matchingPositions>>.            *)
(***************************************************************************)
EXTENDS Integers, Sequences, FiniteSets, TLC

VARIABLES
    pc,         \* position of the running call: "call" (arguments bound), "done" (returned), "idle",
                \* "warm" (idle, the cache used before), or the function that returned last
    cache,      \* the caller-owned cache object handed to score / scoreFile
    target,     \* score: argument target
    query,      \* score / scoreFile / compareFilesByScore: argument query
    res,        \* score: the returned Score
    file,       \* scoreFile: argument file
    fres,       \* scoreFile: the returned IFileScore, with the return statement taken
    prev,       \* scoreFile: the result of the call before this one
    scored,     \* history: each (target, query) pair score was called with on the shared cache, with the Score its first call returned
    files,      \* compareFilesByScore: the files being ranked
    cmp,        \* compareFilesByScore: the returned numbers, one per ordered pair of files
    editorInput,    \* the UntitledTextEditorInput: its fields and the state of its model
    tunnelModel,    \* the TunnelModel: its maps, the calls in flight and the events it has fired
    themeData       \* the ColorThemeData: its fields and the loads in flight

scorerVars == <<pc, cache, target, query, res, file, fres, prev, scored, files, cmp>>
workbenchVars == <<editorInput, tunnelModel, themeData>>
vars == <<pc, cache, target, query, res, file, fres, prev, scored, files, cmp, editorInput, tunnelModel, themeData>>

\* the value of a variable whose object has not been constructed
NoObject == <<>>

\* the scorer is called without an editor input, a tunnel model or a theme
WorkbenchNotConstructed ==
    /\ editorInput = NoObject
    /\ tunnelModel = NoObject
    /\ themeData = NoObject

----------------------------------------------------------------------------
(* Characters and strings *)

\* characters of the strings the tests score: 'h', 'H', 'w' and '-'
ch_h == 104
ch_H == 72
ch_w == 119
ch_dash == 45

\* the characters the bounded inputs are built from: a letter in both cases,
\* a second letter, and a word boundary character
Alphabet == {ch_h, ch_H, ch_w, ch_dash}

MaxTargetLen == 4
MaxQueryLen == 3

StringsUpTo(n) == UNION {[1..k -> Alphabet] : k \in 0..n}

Targets == StringsUpTo(MaxTargetLen)
Queries == StringsUpTo(MaxQueryLen)

\* s[i] of the source, i 0-based
charAt(s, i) == s[i + 1]

isUpper(code) == 65 <= code /\ code <= 90

\* String.prototype.toLowerCase on ASCII (<<>> \o makes the result a plain sequence)
toLowerCase(s) == <<>> \o [i \in 1..Len(s) |-> IF isUpper(s[i]) THEN s[i] + 32 ELSE s[i]]

\* String.prototype.indexOf(ch, fromIndex): the first index >= fromIndex
\* holding ch, or -1
indexOf(s, ch, fromIndex) ==
    IF \E i \in fromIndex..(Len(s) - 1) : charAt(s, i) = ch
    THEN CHOOSE i \in fromIndex..(Len(s) - 1) :
            /\ charAt(s, i) = ch
            /\ \A j \in fromIndex..(i - 1) : charAt(s, j) # ch
    ELSE -1

----------------------------------------------------------------------------
(* score *)

NO_SCORE == <<0, <<>>>>

wordPathBoundary == {45, 95, 32, 47, 92, 46}

\* a cache argument: absent (undefined), or an object with its entries
\* (a function from keys to Scores)
undefinedCache == [defined |-> FALSE, entries |-> <<>>]
emptyCache == [defined |-> TRUE, entries |-> <<>>]

cacheSet(c, hash, value) ==
    [c EXCEPT !.entries =
        [k \in (DOMAIN c.entries) \cup {hash} |-> IF k = hash THEN value ELSE c.entries[k]]]

\* the local variables of score's loop before the first iteration
loopStart == [index |-> 0, startAt |-> 0, score |-> 0, matchingPositions |-> <<>>, broke |-> FALSE]

\* scoreStep without line 383: the score collected so far survives the break
scoreStepKeepsScore(t, q, targetLower, queryLower, st) ==
    LET idx == indexOf(targetLower, charAt(queryLower, st.index), st.startAt)
    IN  IF idx < 0
        THEN [st EXCEPT !.broke = TRUE]
        ELSE
        LET consecutive == IF st.startAt = idx /\ st.index > 0 THEN 5 ELSE 0
            sameCase == IF charAt(t, idx) = charAt(q, st.index) THEN 1 ELSE 0
            bonus == IF idx = 0 THEN 8
                     ELSE IF charAt(t, idx - 1) \in wordPathBoundary THEN 7
                     ELSE IF isUpper(charAt(t, idx)) THEN 1
                     ELSE 0
        IN  [index |-> st.index + 1,
             startAt |-> idx + 1,
             score |-> st.score + 1 + consecutive + sameCase + bonus,
             matchingPositions |-> Append(st.matchingPositions, idx),
             broke |-> FALSE]

\* scoreStep with the three position bonuses added independently instead of
\* as an if / else-if chain
scoreStepStacksBonuses(t, q, targetLower, queryLower, st) ==
    LET idx == indexOf(targetLower, charAt(queryLower, st.index), st.startAt)
    IN  IF idx < 0
        THEN [st EXCEPT !.score = 0, !.broke = TRUE]
        ELSE
        LET consecutive == IF st.startAt = idx /\ st.index > 0 THEN 5 ELSE 0
            sameCase == IF charAt(t, idx) = charAt(q, st.index) THEN 1 ELSE 0
            bonus == (IF idx = 0 THEN 8 ELSE 0)
                     + (IF idx > 0 /\ charAt(t, idx - 1) \in wordPathBoundary THEN 7 ELSE 0)
                     + (IF isUpper(charAt(t, idx)) THEN 1 ELSE 0)
        IN  [index |-> st.index + 1,
             startAt |-> idx + 1,
             score |-> st.score + 1 + consecutive + sameCase + bonus,
             matchingPositions |-> Append(st.matchingPositions, idx),
             broke |-> FALSE]

\* scoreStep with startAt = indexOf instead of indexOf + 1: the next search
\* starts on the character just matched
scoreStepStaysOnMatch(t, q, targetLower, queryLower, st) ==
    LET idx == indexOf(targetLower, charAt(queryLower, st.index), st.startAt)
    IN  IF idx < 0
        THEN [st EXCEPT !.score = 0, !.broke = TRUE]
        ELSE
        LET consecutive == IF st.startAt = idx /\ st.index > 0 THEN 5 ELSE 0
            sameCase == IF charAt(t, idx) = charAt(q, st.index) THEN 1 ELSE 0
            bonus == IF idx = 0 THEN 8
                     ELSE IF charAt(t, idx - 1) \in wordPathBoundary THEN 7
                     ELSE IF isUpper(charAt(t, idx)) THEN 1
                     ELSE 0
        IN  [index |-> st.index + 1,
             startAt |-> idx,
             score |-> st.score + 1 + consecutive + sameCase + bonus,
             matchingPositions |-> Append(st.matchingPositions, idx),
             broke |-> FALSE]

\* scoreStep whose same case bonus compares the query character with the
\* lower-cased target
scoreStepSameCaseOnLower(t, q, targetLower, queryLower, st) ==
    LET idx == indexOf(targetLower, charAt(queryLower, st.index), st.startAt)
    IN  IF idx < 0
        THEN [st EXCEPT !.score = 0, !.broke = TRUE]
        ELSE
        LET consecutive == IF st.startAt = idx /\ st.index > 0 THEN 5 ELSE 0
            sameCase == IF charAt(targetLower, idx) = charAt(q, st.index) THEN 1 ELSE 0
            bonus == IF idx = 0 THEN 8
                     ELSE IF charAt(t, idx - 1) \in wordPathBoundary THEN 7
                     ELSE IF isUpper(charAt(t, idx)) THEN 1
                     ELSE 0
        IN  [index |-> st.index + 1,
             startAt |-> idx + 1,
             score |-> st.score + 1 + consecutive + sameCase + bonus,
             matchingPositions |-> Append(st.matchingPositions, idx),
             broke |-> FALSE]

\* scoreStep with the bonuses of the start of the string and of the start of
\* a word exchanged
scoreStepSwapsStartAndWord(t, q, targetLower, queryLower, st) ==
    LET idx == indexOf(targetLower, charAt(queryLower, st.index), st.startAt)
    IN  IF idx < 0
        THEN [st EXCEPT !.score = 0, !.broke = TRUE]
        ELSE
        LET consecutive == IF st.startAt = idx /\ st.index > 0 THEN 5 ELSE 0
            sameCase == IF charAt(t, idx) = charAt(q, st.index) THEN 1 ELSE 0
            bonus == IF idx = 0 THEN 7
                     ELSE IF charAt(t, idx - 1) \in wordPathBoundary THEN 8
                     ELSE IF isUpper(charAt(t, idx)) THEN 1
                     ELSE 0
        IN  [index |-> st.index + 1,
             startAt |-> idx + 1,
             score |-> st.score + 1 + consecutive + sameCase + bonus,
             matchingPositions |-> Append(st.matchingPositions, idx),
             broke |-> FALSE]

\* scoreStep whose consecutive match bonus does not ask for index > 0
scoreStepConsecutiveOnFirst(t, q, targetLower, queryLower, st) ==
    LET idx == indexOf(targetLower, charAt(queryLower, st.index), st.startAt)
    IN  IF idx < 0
        THEN [st EXCEPT !.score = 0, !.broke = TRUE]
        ELSE
        LET consecutive == IF st.startAt = idx THEN 5 ELSE 0
            sameCase == IF charAt(t, idx) = charAt(q, st.index) THEN 1 ELSE 0
            bonus == IF idx = 0 THEN 8
                     ELSE IF charAt(t, idx - 1) \in wordPathBoundary THEN 7
                     ELSE IF isUpper(charAt(t, idx)) THEN 1
                     ELSE 0
        IN  [index |-> st.index + 1,
             startAt |-> idx + 1,
             score |-> st.score + 1 + consecutive + sameCase + bonus,
             matchingPositions |-> Append(st.matchingPositions, idx),
             broke |-> FALSE]

\* one iteration of the while loop
scoreStep(t, q, targetLower, queryLower, st) ==
    LET idx == indexOf(targetLower, charAt(queryLower, st.index), st.startAt)
    IN  IF idx < 0
        THEN [st EXCEPT !.score = 0, !.broke = TRUE]
        ELSE
        LET consecutive == IF st.startAt = idx /\ st.index > 0 THEN 5 ELSE 0
            sameCase == IF charAt(t, idx) = charAt(q, st.index) THEN 1 ELSE 0
            bonus == IF idx = 0 THEN 8
                     ELSE IF charAt(t, idx - 1) \in wordPathBoundary THEN 7
                     ELSE IF isUpper(charAt(t, idx)) THEN 1
                     ELSE 0
        IN  [index |-> st.index + 1,
             startAt |-> idx + 1,
             score |-> st.score + 1 + consecutive + sameCase + bonus,
             matchingPositions |-> Append(st.matchingPositions, idx),
             broke |-> FALSE]

\* the iterations lo .. hi-1 of the while loop, run in order; the loop is left
\* at the break (the range is split in halves only to keep the depth of
\* evaluation logarithmic)
RECURSIVE scoreLoop(_, _, _, _, _, _, _)
scoreLoop(t, q, targetLower, queryLower, lo, hi, st) ==
    IF hi <= lo THEN st
    ELSE IF hi = lo + 1 THEN scoreStep(t, q, targetLower, queryLower, st)
    ELSE LET mid == (lo + hi) \div 2
             half == scoreLoop(t, q, targetLower, queryLower, lo, mid, st)
         IN  IF half.broke THEN half
             ELSE scoreLoop(t, q, targetLower, queryLower, mid, hi, half)

\* score that looks into the cache before the checks of lines 352-358
scoreCacheBeforeChecks(t, q, c) ==
    LET hash == t \o q
    IN  IF c.defined /\ hash \in DOMAIN c.entries
        THEN [res |-> c.entries[hash], cache |-> c]
        ELSE IF Len(t) = 0 \/ Len(q) = 0 THEN [res |-> NO_SCORE, cache |-> c]
        ELSE IF Len(t) < Len(q) THEN [res |-> NO_SCORE, cache |-> c]
        ELSE
        LET targetLower == toLowerCase(t)
            queryLower == toLowerCase(q)
            end == scoreLoop(t, q, targetLower, queryLower, 0, Len(q), loopStart)
            r == IF end.score > 0 THEN <<end.score, end.matchingPositions>> ELSE NO_SCORE
        IN  [res |-> r, cache |-> IF c.defined THEN cacheSet(c, hash, r) ELSE c]

\* score that writes to the cache only the Score of a match
scoreCachesMatchesOnly(t, q, c) ==
    IF Len(t) = 0 \/ Len(q) = 0 THEN [res |-> NO_SCORE, cache |-> c]
    ELSE IF Len(t) < Len(q) THEN [res |-> NO_SCORE, cache |-> c]
    ELSE
    LET hash == t \o q
    IN  IF c.defined /\ hash \in DOMAIN c.entries
        THEN [res |-> c.entries[hash], cache |-> c]
        ELSE
        LET targetLower == toLowerCase(t)
            queryLower == toLowerCase(q)
            end == scoreLoop(t, q, targetLower, queryLower, 0, Len(q), loopStart)
            r == IF end.score > 0 THEN <<end.score, end.matchingPositions>> ELSE NO_SCORE
        IN  [res |-> r, cache |-> IF c.defined /\ end.score > 0 THEN cacheSet(c, hash, r) ELSE c]

\* variant of score: the cache key is the query alone
scoreKeyedByQuery(t, q, c) ==
    IF Len(t) = 0 \/ Len(q) = 0 THEN [res |-> NO_SCORE, cache |-> c]
    ELSE IF Len(t) < Len(q) THEN [res |-> NO_SCORE, cache |-> c]
    ELSE
    LET hash == q
    IN  IF c.defined /\ hash \in DOMAIN c.entries
        THEN [res |-> c.entries[hash], cache |-> c]
        ELSE
        LET targetLower == toLowerCase(t)
            queryLower == toLowerCase(q)
            end == scoreLoop(t, q, targetLower, queryLower, 0, Len(q), loopStart)
            r == IF end.score > 0 THEN <<end.score, end.matchingPositions>> ELSE NO_SCORE
        IN  [res |-> r, cache |-> IF c.defined THEN cacheSet(c, hash, r) ELSE c]

\* score(target, query, cache): the returned Score and the cache afterwards
score(t, q, c) ==
    IF Len(t) = 0 \/ Len(q) = 0 THEN [res |-> NO_SCORE, cache |-> c]
    ELSE IF Len(t) < Len(q) THEN [res |-> NO_SCORE, cache |-> c]
    ELSE
    LET hash == t \o q
    IN  IF c.defined /\ hash \in DOMAIN c.entries
        THEN [res |-> c.entries[hash], cache |-> c]
        ELSE
        LET targetLower == toLowerCase(t)
            queryLower == toLowerCase(q)
            end == scoreLoop(t, q, targetLower, queryLower, 0, Len(q), loopStart)
            r == IF end.score > 0 THEN <<end.score, end.matchingPositions>> ELSE NO_SCORE
        IN  [res |-> r, cache |-> IF c.defined THEN cacheSet(c, hash, r) ELSE c]

----------------------------------------------------------------------------
(* Collaborators of scoreFile and compareFilesByScore that live in other    *)
(* files of vs/base/common (paths, filters, comparers)                      *)

\* paths.isEqual(pathA, pathB, ignoreCase)
isEqual(pathA, pathB, ignoreCase) ==
    IF ignoreCase THEN toLowerCase(pathA) = toLowerCase(pathB) ELSE pathA = pathB

\* null, as returned by matchesPrefix; a match list is never empty
null == <<>>

startsWithIgnoreCase(str, candidate) ==
    /\ Len(candidate) <= Len(str)
    /\ LET strLower == toLowerCase(str)
           candidateLower == toLowerCase(candidate)
       IN  \A i \in 1..Len(candidate) : strLower[i] = candidateLower[i]

\* filters.matchesPrefix(word, wordToMatchAgainst): the single range
\* [0, len(word)) when wordToMatchAgainst starts with word ignoring case
matchesPrefix(word, wordToMatchAgainst) ==
    IF startsWithIgnoreCase(wordToMatchAgainst, word)
    THEN <<[start |-> 0, end |-> Len(word)]>>
    ELSE null

\* filters.createMatches(positions): adjacent positions coalesce into one
\* half-open range; the ranges are listed in ascending order
createMatches(positions) ==
    LET n == Len(positions)
        starts == {i \in 1..n : i = 1 \/ positions[i] # positions[i - 1] + 1}
        ends == {i \in 1..n : i = n \/ positions[i + 1] # positions[i] + 1}
        startOf(k) == CHOOSE i \in starts : Cardinality({j \in starts : j <= i}) = k
        endOf(k) == CHOOSE i \in ends : Cardinality({j \in ends : j <= i}) = k
    IN  <<>> \o [k \in 1..Cardinality(starts) |->
                    [start |-> positions[startOf(k)], end |-> positions[endOf(k)] + 1]]

\* comparison of two strings by their code units: negative, 0 or positive
compareCodeUnits(one, other) ==
    LET common == IF Len(one) < Len(other) THEN Len(one) ELSE Len(other)
        differ == {i \in 1..common : one[i] # other[i]}
    IN  IF differ = {} THEN Len(one) - Len(other)
        ELSE LET first == CHOOSE i \in differ : \A j \in differ : i <= j
             IN  one[first] - other[first]

\* comparers.compareAnything(one, other, lookFor): strings that start with
\* lookFor sort first, then shorter strings, then the order of the characters
compareAnything(one, other, lookFor) ==
    LET onePrefix == startsWithIgnoreCase(one, lookFor)
        otherPrefix == startsWithIgnoreCase(other, lookFor)
    IN  IF onePrefix # otherPrefix THEN (IF onePrefix THEN -1 ELSE 1)
        ELSE IF Len(one) # Len(other) THEN Len(one) - Len(other)
        ELSE compareCodeUnits(one, other)

----------------------------------------------------------------------------
(* scoreFile *)

\* A file is given by what the accessor yields for it: null marks an absent
\* file; an absent (undefined) basename or path is the empty string, both
\* being falsy and nothing else being read from them.
NoFile == [null |-> TRUE, basename |-> <<>>, path |-> <<>>]

getBasename(f) == f.basename
getPath(f) == f.path

NO_FILE_SCORE == [score |-> 0]

PATH_IDENTITY_SCORE == 262144
BASENAME_PREFIX_SCORE == 131072
BASENAME_SCORE_THRESHOLD == 65536

\* the return statement of tier 1 (identity)
identityScore(basename, path, c) ==
    [ret |-> "identity",
     res |-> [score |-> PATH_IDENTITY_SCORE,
              pathMatch |-> <<[start |-> 0, end |-> Len(path)]>>,
              basenameMatch |-> <<[start |-> 0, end |-> Len(basename)]>>],
     cache |-> c]

\* the return statement of tier 2 (basename prefix)
prefixScore(prefixBasenameMatch, c) ==
    [ret |-> "basenamePrefix",
     res |-> [score |-> BASENAME_PREFIX_SCORE, basenameMatch |-> prefixBasenameMatch],
     cache |-> c]

\* subsequenceScores that scores the path in every case, before looking at
\* the basename score
subsequenceScoresAlwaysScoresPath(basename, path, q, c) ==
    LET b == score(basename, q, c)
        p == score(path, q, b.cache)
        basenameScore == b.res[1]
        basenamePositions == b.res[2]
        pathScore == p.res[1]
        pathPositions == p.res[2]
    IN  IF basenameScore # 0
        THEN [ret |-> "basenameScore",
              res |-> [score |-> basenameScore + BASENAME_SCORE_THRESHOLD,
                       basenameMatch |-> createMatches(basenamePositions)],
              cache |-> p.cache]
        ELSE IF pathScore # 0
        THEN [ret |-> "pathScore",
              res |-> [score |-> pathScore, pathMatch |-> createMatches(pathPositions)],
              cache |-> p.cache]
        ELSE [ret |-> "noScore", res |-> NO_FILE_SCORE, cache |-> p.cache]

\* one range [position, position + 1) per matched position
rangePerPosition(positions) ==
    <<>> \o [k \in 1..Len(positions) |-> [start |-> positions[k], end |-> positions[k] + 1]]

\* subsequenceScores that reports one range per matched position instead of
\* the result of createMatches
subsequenceScoresRangePerPosition(basename, path, q, c) ==
    LET b == score(basename, q, c)
        basenameScore == b.res[1]
        basenamePositions == b.res[2]
    IN  IF basenameScore # 0
        THEN [ret |-> "basenameScore",
              res |-> [score |-> basenameScore + BASENAME_SCORE_THRESHOLD,
                       basenameMatch |-> rangePerPosition(basenamePositions)],
              cache |-> b.cache]
        ELSE
        LET p == score(path, q, b.cache)
            pathScore == p.res[1]
            pathPositions == p.res[2]
        IN  IF pathScore # 0
            THEN [ret |-> "pathScore",
                  res |-> [score |-> pathScore, pathMatch |-> rangePerPosition(pathPositions)],
                  cache |-> p.cache]
            ELSE [ret |-> "noScore", res |-> NO_FILE_SCORE, cache |-> p.cache]

\* tiers 3 and 4: the basename is scored, and the path only when the basename
\* scores 0
subsequenceScores(basename, path, q, c) ==
    LET b == score(basename, q, c)
        basenameScore == b.res[1]
        basenamePositions == b.res[2]
    IN  IF basenameScore # 0
        THEN [ret |-> "basenameScore",
              res |-> [score |-> basenameScore + BASENAME_SCORE_THRESHOLD,
                       basenameMatch |-> createMatches(basenamePositions)],
              cache |-> b.cache]
        ELSE
        LET p == score(path, q, b.cache)
            pathScore == p.res[1]
            pathPositions == p.res[2]
        IN  IF pathScore # 0
            THEN [ret |-> "pathScore",
                  res |-> [score |-> pathScore, pathMatch |-> createMatches(pathPositions)],
                  cache |-> p.cache]
            ELSE [ret |-> "noScore", res |-> NO_FILE_SCORE, cache |-> p.cache]

\* scoreFile with the checks of tiers 1 and 2 in the opposite order
scoreFilePrefixBeforeIdentity(f, q, c) ==
    IF f.null THEN [ret |-> "noFile", res |-> NO_FILE_SCORE, cache |-> c]
    ELSE IF Len(getBasename(f)) = 0 \/ Len(getPath(f)) = 0
    THEN [ret |-> "noName", res |-> NO_FILE_SCORE, cache |-> c]
    ELSE IF matchesPrefix(q, getBasename(f)) # null
    THEN prefixScore(matchesPrefix(q, getBasename(f)), c)
    ELSE IF isEqual(q, getPath(f), TRUE)
    THEN identityScore(getBasename(f), getPath(f), c)
    ELSE subsequenceScores(getBasename(f), getPath(f), q, c)

\* scoreFile with the basename scored before the prefix check of tier 2
scoreFileScoresBeforePrefix(f, q, c) ==
    IF f.null THEN [ret |-> "noFile", res |-> NO_FILE_SCORE, cache |-> c]
    ELSE IF Len(getBasename(f)) = 0 \/ Len(getPath(f)) = 0
    THEN [ret |-> "noName", res |-> NO_FILE_SCORE, cache |-> c]
    ELSE IF isEqual(q, getPath(f), TRUE)
    THEN identityScore(getBasename(f), getPath(f), c)
    ELSE IF score(getBasename(f), q, c).res[1] # 0
    THEN subsequenceScores(getBasename(f), getPath(f), q, c)
    ELSE IF matchesPrefix(q, getBasename(f)) # null
    THEN prefixScore(matchesPrefix(q, getBasename(f)), c)
    ELSE subsequenceScores(getBasename(f), getPath(f), q, c)

\* scoreFile without the check of lines 496-498: an empty or absent basename
\* or path goes on to the tiers
scoreFileWithoutNameCheck(f, q, c) ==
    IF f.null THEN [ret |-> "noFile", res |-> NO_FILE_SCORE, cache |-> c]
    ELSE IF isEqual(q, getPath(f), TRUE)
    THEN identityScore(getBasename(f), getPath(f), c)
    ELSE IF matchesPrefix(q, getBasename(f)) # null
    THEN prefixScore(matchesPrefix(q, getBasename(f)), c)
    ELSE subsequenceScores(getBasename(f), getPath(f), q, c)

\* scoreFile(file, accessor, query, cache): the returned IFileScore (a field
\* that is not set is not in the record), the return statement taken, and the
\* cache afterwards
scoreFile(f, q, c) ==
    IF f.null THEN [ret |-> "noFile", res |-> NO_FILE_SCORE, cache |-> c]
    ELSE
    LET basename == getBasename(f)
        path == getPath(f)
    IN  IF Len(basename) = 0 \/ Len(path) = 0
        THEN [ret |-> "noName", res |-> NO_FILE_SCORE, cache |-> c]
        ELSE IF isEqual(q, path, TRUE)
        THEN identityScore(basename, path, c)
        ELSE
        LET prefixBasenameMatch == matchesPrefix(q, basename)
        IN  IF prefixBasenameMatch # null
            THEN prefixScore(prefixBasenameMatch, c)
            ELSE subsequenceScores(basename, path, q, c)

\* before any call of scoreFile
NoFileResult == [ret |-> "none", res |-> NO_FILE_SCORE]

----------------------------------------------------------------------------
(* compareFilesByScore *)

\* stages 1 to 5 on the two scores: the returned number
compareScores(fileA, fileB, q, scoreA, scoreB) ==
    LET basenameA == getBasename(fileA)
        basenameB == getBasename(fileB)
        pathA == getPath(fileA)
        pathB == getPath(fileB)
        identity == scoreA = PATH_IDENTITY_SCORE \/ scoreB = PATH_IDENTITY_SCORE
        prefix == scoreA = BASENAME_PREFIX_SCORE \/ scoreB = BASENAME_PREFIX_SCORE
        basenameScored == scoreA > BASENAME_SCORE_THRESHOLD \/ scoreB > BASENAME_SCORE_THRESHOLD
    IN  IF identity /\ scoreA # scoreB
        THEN (IF scoreA = PATH_IDENTITY_SCORE THEN -1 ELSE 1)
        ELSE IF prefix /\ scoreA # scoreB
        THEN (IF scoreA = BASENAME_PREFIX_SCORE THEN -1 ELSE 1)
        ELSE IF prefix /\ Len(basenameA) # Len(basenameB)
        THEN Len(basenameA) - Len(basenameB)
        ELSE IF basenameScored /\ scoreB < BASENAME_SCORE_THRESHOLD THEN -1
        ELSE IF basenameScored /\ scoreA < BASENAME_SCORE_THRESHOLD THEN 1
        ELSE IF scoreA # scoreB THEN (IF scoreA > scoreB THEN -1 ELSE 1)
        ELSE IF Len(basenameA) # Len(basenameB) THEN Len(basenameA) - Len(basenameB)
        ELSE IF Len(pathA) # Len(pathB) THEN Len(pathA) - Len(pathB)
        ELSE IF basenameA # basenameB THEN compareAnything(basenameA, basenameB, q)
        ELSE compareAnything(pathA, pathB, q)

\* compareFilesByScore whose stage 3 returns -1 in both of its branches
compareFilesByScoreStage3Slip(fileA, fileB, q, c) ==
    LET a == scoreFile(fileA, q, c)
        b == scoreFile(fileB, q, a.cache)
        scoreA == a.res.score
        scoreB == b.res.score
        decided == /\ ~(scoreA = PATH_IDENTITY_SCORE \/ scoreB = PATH_IDENTITY_SCORE)
                   /\ ~(scoreA = BASENAME_PREFIX_SCORE \/ scoreB = BASENAME_PREFIX_SCORE)
                   /\ scoreB > BASENAME_SCORE_THRESHOLD
                   /\ scoreA < BASENAME_SCORE_THRESHOLD
    IN  [res |-> IF decided THEN -1 ELSE compareScores(fileA, fileB, q, scoreA, scoreB),
         cache |-> b.cache]

\* compareFilesByScore without its last statement: files with the same
\* basename are compared by basename only
compareFilesByScoreNoPathCompare(fileA, fileB, q, c) ==
    LET a == scoreFile(fileA, q, c)
        b == scoreFile(fileB, q, a.cache)
        scoreA == a.res.score
        scoreB == b.res.score
        last == /\ scoreA = scoreB
                /\ Len(getPath(fileA)) = Len(getPath(fileB))
                /\ getBasename(fileA) = getBasename(fileB)
    IN  [res |-> IF last THEN compareAnything(getBasename(fileA), getBasename(fileB), q)
                 ELSE compareScores(fileA, fileB, q, scoreA, scoreB),
         cache |-> b.cache]

\* compareFilesByScore whose stage 4 returns 1 for the higher score and -1
\* for the lower one
compareFilesByScoreLowerScoreFirst(fileA, fileB, q, c) ==
    LET a == scoreFile(fileA, q, c)
        b == scoreFile(fileB, q, a.cache)
        scoreA == a.res.score
        scoreB == b.res.score
        stage4 == /\ scoreA # scoreB
                  /\ scoreA # PATH_IDENTITY_SCORE /\ scoreB # PATH_IDENTITY_SCORE
                  /\ scoreA # BASENAME_PREFIX_SCORE /\ scoreB # BASENAME_PREFIX_SCORE
                  /\ (scoreA > BASENAME_SCORE_THRESHOLD \/ scoreB > BASENAME_SCORE_THRESHOLD)
                        => (scoreA >= BASENAME_SCORE_THRESHOLD /\ scoreB >= BASENAME_SCORE_THRESHOLD)
    IN  [res |-> IF stage4 THEN (IF scoreA > scoreB THEN 1 ELSE -1)
                 ELSE compareScores(fileA, fileB, q, scoreA, scoreB),
         cache |-> b.cache]

\* compareFilesByScore(fileA, fileB, accessor, query, cache): the returned
\* number and the cache afterwards
compareFilesByScore(fileA, fileB, q, c) ==
    LET a == scoreFile(fileA, q, c)
        b == scoreFile(fileB, q, a.cache)
    IN  [res |-> compareScores(fileA, fileB, q, a.res.score, b.res.score), cache |-> b.cache]

----------------------------------------------------------------------------
(* Specification Spec: one call of score without a cache *)

Init ==
    /\ pc = "call"
    /\ target \in Targets
    /\ query \in Queries
    /\ res = NO_SCORE
    /\ cache = undefinedCache
    /\ file = NoFile
    /\ fres = NoFileResult
    /\ prev = NoFileResult
    /\ scored = <<>>
    /\ files = <<>>
    /\ cmp = <<>>
    /\ WorkbenchNotConstructed

ScoreCall ==
    /\ pc = "call"
    /\ LET out == score(target, query, cache)
       IN  /\ res' = out.res
           /\ cache' = out.cache
    /\ pc' = "done"
    /\ UNCHANGED <<target, query, file, fres, prev, scored, files, cmp>>
    /\ UNCHANGED workbenchVars

Next == ScoreCall

Spec == Init /\ [][Next]_vars

----------------------------------------------------------------------------
(* Claims about score, checked under Spec *)

\* q is a subsequence of t: its characters occur in t in order, at strictly
\* increasing indices
IsSubsequence(q, t) ==
    \E f \in [1..Len(q) -> 1..Len(t)] :
        /\ \A i \in 1..Len(q) : t[f[i]] = q[i]
        /\ \A i \in 1..(Len(q) - 1) : f[i] < f[i + 1]

\* C1: score(target, query).score > 0 exactly when target and query are
\* non-empty and query is a subsequence of target ignoring case; in every other
\* case the result is the sentinel: score 0 with an empty position list.
C1_ScoreIffSubsequence ==
    pc = "done" =>
        LET matches == /\ Len(target) > 0
                       /\ Len(query) > 0
                       /\ IsSubsequence(toLowerCase(query), toLowerCase(target))
        IN  /\ (res[1] > 0) <=> matches
            /\ ~matches => res = <<0, <<>>>>

\* a failed match whose first query character was found in the target
C1_Witness ==
    /\ pc = "done"
    /\ Len(query) >= 2
    /\ Len(target) >= Len(query)
    /\ indexOf(toLowerCase(target), toLowerCase(query)[1], 0) >= 0
    /\ ~IsSubsequence(toLowerCase(query), toLowerCase(target))
    /\ res = <<0, <<>>>>

\* what the i-th query character (i 0-based), matched at p[i + 1], adds to the score
Contribution(t, q, p, i) ==
    LET at == p[i + 1]
    IN  1
        + (IF i > 0 /\ at = p[i] + 1 THEN 5 ELSE 0)
        + (IF charAt(t, at) = charAt(q, i) THEN 1 ELSE 0)
        + (IF at = 0 THEN 8
           ELSE IF charAt(t, at - 1) \in {45, 95, 32, 47, 92, 46} THEN 7
           ELSE IF charAt(t, at) \in 65..90 THEN 1
           ELSE 0)

RECURSIVE SumOfContributions(_, _, _, _)
SumOfContributions(t, q, p, n) ==
    IF n = 0 THEN 0
    ELSE SumOfContributions(t, q, p, n - 1) + Contribution(t, q, p, n - 1)

\* C7: the score of a match is the sum over the query characters of 1, plus 5
\* when matched right after the previous match, plus 1 for the same case, plus
\* exactly one of 8 (index 0), 7 (after a boundary character), 1 (upper case), 0.
C7_ScoreIsSumOfBonuses ==
    (pc = "done" /\ res[1] > 0) =>
        /\ Len(res[2]) = Len(query)
        /\ res[1] = SumOfContributions(target, query, res[2], Len(query))

\* a match with an upper-case character right after a boundary character, and
\* a consecutive match
C7_Witness ==
    /\ pc = "done"
    /\ res[1] > 0
    /\ \E i \in 2..Len(res[2]) :
            /\ res[2][i] = res[2][i - 1] + 1
            /\ charAt(target, res[2][i] - 1) = ch_dash
            /\ isUpper(charAt(target, res[2][i]))

\* C8: the positions of a match: one per query character, strictly ascending,
\* inside the target, each the smallest index after the previous position where
\* the target equals the query character ignoring case.
C8_PositionsGreedyLeftmost ==
    (pc = "done" /\ res[1] > 0) =>
        LET p == res[2]
            tl == toLowerCase(target)
            ql == toLowerCase(query)
        IN  /\ Len(p) = Len(query)
            /\ \A i \in 1..Len(p) :
                    /\ p[i] \in 0..(Len(target) - 1)
                    /\ tl[p[i] + 1] = ql[i]
                    /\ i > 1 => p[i - 1] < p[i]
                    /\ \A j \in (IF i = 1 THEN 0 ELSE p[i - 1] + 1)..(p[i] - 1) :
                            tl[j + 1] # ql[i]

\* a match that is not contiguous and does not start at index 0
C8_Witness ==
    /\ pc = "done"
    /\ res[1] > 0
    /\ Len(res[2]) >= 2
    /\ res[2][1] > 0
    /\ res[2][2] > res[2][1] + 1

\* C24: every matching score lies between len(query) and 14 * len(query) - 4
\* (each character adds at least 1, the first at most 10, every later one at
\* most 14); so for every query shorter than 4682 characters a subsequence
\* score is below BASENAME_SCORE_THRESHOLD = 2^16 and a tier 3 file score is
\* below BASENAME_PREFIX_SCORE = 2^17 (the bound grows with the length, so it
\* is taken at the longest such query).
C24_ScoreBounds ==
    /\ (pc = "done" /\ res[1] > 0) =>
            /\ Len(query) <= res[1]
            /\ res[1] <= 14 * Len(query) - 4
    /\ LET longest == 4681
           highest == 14 * longest - 4
       IN  /\ highest < BASENAME_SCORE_THRESHOLD
           /\ highest + BASENAME_SCORE_THRESHOLD < BASENAME_PREFIX_SCORE

\* a match of more than one character with the highest score of its length
C24_Witness ==
    /\ pc = "done"
    /\ Len(query) >= 2
    /\ res[1] = 14 * Len(query) - 4

----------------------------------------------------------------------------
(* Specification SpecWords: one call of score without a cache, on the       *)
(* words of test('score') and of the spec's examples, and on every target   *)
(* and query one character shorter than those of Spec                       *)

ch_e == 101
ch_l == 108
ch_L == 76
ch_o == 111
ch_r == 114
ch_d == 100
ch_W == 87
ch_4 == 52

\* 'HeLlo-World', the target of test('score'), and 'Hello-World'
HeLlo_World == <<ch_H, ch_e, ch_L, ch_l, ch_o, ch_dash, ch_W, ch_o, ch_r, ch_l, ch_d>>
Hello_World == <<ch_H, ch_e, ch_l, ch_l, ch_o, ch_dash, ch_W, ch_o, ch_r, ch_l, ch_d>>

HelLo_World == <<ch_H, ch_e, ch_l, ch_L, ch_o, ch_dash, ch_W, ch_o, ch_r, ch_l, ch_d>>
hello_world == <<ch_h, ch_e, ch_l, ch_l, ch_o, ch_dash, ch_w, ch_o, ch_r, ch_l, ch_d>>

\* the queries of test('score'), in the order they are scored
TestQueries ==
    <<HelLo_World, hello_world, <<ch_H, ch_W>>, <<ch_h, ch_w>>, <<ch_H>>, <<ch_h>>,
      <<ch_W>>, <<ch_w>>, <<ch_L, ch_d>>, <<ch_l, ch_d>>, <<ch_L>>, <<ch_l>>, <<ch_4>>>>

\* a letter in the other case; any other character as it is
otherCase(ch) ==
    IF isUpper(ch) THEN ch + 32
    ELSE IF 97 <= ch /\ ch <= 122 THEN ch - 32
    ELSE ch

\* the strings that are equal to q ignoring case
RECURSIVE CaseVariants(_)
CaseVariants(q) ==
    IF Len(q) = 0 THEN {<<>>}
    ELSE {<<c>> \o rest : c \in {Head(q), otherCase(Head(q))}, rest \in CaseVariants(Tail(q))}

WordTargets == {HeLlo_World, Hello_World, hello_world}
WordQueries ==
    {TestQueries[i] : i \in 1..Len(TestQueries)}
        \cup CaseVariants(<<ch_h, ch_w>>) \cup CaseVariants(<<ch_l, ch_d>>)
        \cup CaseVariants(<<ch_o, ch_dash, ch_w>>) \cup {Hello_World, HeLlo_World}

WordInputs ==
    (WordTargets \X WordQueries)
        \cup (StringsUpTo(MaxTargetLen - 1) \X StringsUpTo(MaxQueryLen - 1))

InitWords ==
    /\ pc = "call"
    /\ \E in \in WordInputs : target = in[1] /\ query = in[2]
    /\ res = NO_SCORE
    /\ cache = undefinedCache
    /\ file = NoFile
    /\ fres = NoFileResult
    /\ prev = NoFileResult
    /\ scored = <<>>
    /\ files = <<>>
    /\ cmp = <<>>
    /\ WorkbenchNotConstructed

NextWords == ScoreCall

SpecWords == InitWords /\ [][NextWords]_vars

\* the number of query characters whose case is that of the target character
\* they are matched at
sameCaseCount(t, q, positions) ==
    Cardinality({i \in 1..Len(positions) : charAt(t, positions[i]) = q[i]})

\* C19: case bonus: for any target and any two queries that are equal
\* ignoring case, score matches them at the same positions and the two scores
\* differ by exactly the difference in the number of query characters whose
\* case is that of the matched target character; in particular
\* score('Hello-World', 'HelLo-World') > score('Hello-World', 'hello-world'),
\* and both are greater than score('Hello-World', 'H').
C19_CaseBonus ==
    pc = "done" =>
        /\ \A other \in CaseVariants(query) :
            LET otherRes == score(target, other, undefinedCache).res
            IN  /\ otherRes[2] = res[2]
                /\ res[1] - otherRes[1]
                      = sameCaseCount(target, query, res[2]) - sameCaseCount(target, other, otherRes[2])
        /\ (target = Hello_World /\ query = HelLo_World) =>
            /\ res[1] > score(Hello_World, hello_world, undefinedCache).res[1]
            /\ score(Hello_World, hello_world, undefinedCache).res[1]
                  > score(Hello_World, <<ch_H>>, undefinedCache).res[1]

\* 'HelLo-World' scored against 'Hello-World': the case of one query
\* character differs from the target's
C19_Witness ==
    /\ pc = "done"
    /\ target = Hello_World
    /\ query = HelLo_World
    /\ Len(res[2]) = Len(query)
    /\ sameCaseCount(target, query, res[2]) = Len(query) - 1

\* C20: for target 'HeLlo-World' the scores of the queries of test('score')
\* are non-increasing in the order of the test, the last one ('4') being 0;
\* the first query is matched at 11 positions and 'HW' at positions [0, 6].
C20_TestScoresAreSorted ==
    (pc = "done" /\ target = HeLlo_World) =>
        \A i \in 1..Len(TestQueries) :
            query = TestQueries[i] =>
                /\ \A j \in (i + 1)..Len(TestQueries) :
                        res[1] >= score(target, TestQueries[j], undefinedCache).res[1]
                /\ i = Len(TestQueries) => res[1] = 0
                /\ i = 1 => Len(res[2]) = 11
                /\ i = 3 => res[2] = <<0, 6>>

\* 'HW' scored against 'HeLlo-World'
C20_Witness ==
    /\ pc = "done"
    /\ target = HeLlo_World
    /\ query = <<ch_H, ch_W>>
    /\ res[2] = <<0, 6>>

----------------------------------------------------------------------------
(* Specification SpecCache: a sequence of score calls that share one cache *)

CacheAlphabet == {ch_h, ch_w}
MaxKeyLen == 4
MaxCalls == 2

CacheStrings == UNION {[1..k -> CacheAlphabet] : k \in 0..MaxKeyLen}
CachePairs == {p \in CacheStrings \X CacheStrings : Len(p[1]) + Len(p[2]) <= MaxKeyLen}

InitCache ==
    /\ pc = "idle"
    /\ cache = emptyCache
    /\ target = <<>>
    /\ query = <<>>
    /\ res = NO_SCORE
    /\ scored = <<>>
    /\ file = NoFile
    /\ fres = NoFileResult
    /\ prev = NoFileResult
    /\ files = <<>>
    /\ cmp = <<>>
    /\ WorkbenchNotConstructed

\* score(t, q, cache) on the shared cache
CachedScoreCall(t, q) ==
    /\ <<t, q>> \in DOMAIN scored \/ Cardinality(DOMAIN scored) < MaxCalls
    /\ LET out == score(t, q, cache)
       IN  /\ res' = out.res
           /\ cache' = out.cache
           /\ scored' = IF <<t, q>> \in DOMAIN scored THEN scored
                         ELSE [p \in (DOMAIN scored) \cup {<<t, q>>} |->
                                  IF p = <<t, q>> THEN out.res ELSE scored[p]]
    /\ target' = t
    /\ query' = q
    /\ pc' = "done"
    /\ UNCHANGED <<file, fres, prev, files, cmp>>
    /\ UNCHANGED workbenchVars

NextCache == \E p \in CachePairs : CachedScoreCall(p[1], p[2])

SpecCache == InitCache /\ [][NextCache]_vars

\* C5: the cache is memoization only: every call score(target, query, cache)
\* in a sequence of calls sharing one cache returns exactly the Score that
\* score(target, query) returns with no cache.
C5_CacheNeverChangesResult ==
    pc = "done" => res = score(target, query, undefinedCache).res

\* the pairs among those called that score gets past its early returns for
PairsScored ==
    {p \in DOMAIN scored : Len(p[1]) > 0 /\ Len(p[2]) > 0 /\ Len(p[1]) >= Len(p[2])}

\* C6: a repeated call with the same cache returns what the first call
\* returned, and the cache holds exactly one entry per distinct (target, query)
\* pair that was scored, failed matches included.
C6_OneEntryPerScoredPair ==
    pc = "done" =>
        /\ res = scored[<<target, query>>]
        /\ Cardinality(DOMAIN cache.entries) = Cardinality(PairsScored)

\* C21: when target is empty, query is empty, or len(target) < len(query),
\* score returns the sentinel and leaves the cache as it was, even when the
\* cache holds an entry under the key target + query.
C21_EarlyReturnLeavesCache ==
    [][(Len(target') = 0 \/ Len(query') = 0 \/ Len(target') < Len(query'))
            => (res' = <<0, <<>>>> /\ cache' = cache)]_vars

\* a call with a target shorter than the query, on a cache that holds a match
\* under the key target + query
C21_Witness ==
    /\ pc = "done"
    /\ Len(target) > 0
    /\ Len(target) < Len(query)
    /\ (target \o query) \in DOMAIN cache.entries
    /\ cache.entries[target \o query][1] > 0
    /\ res = <<0, <<>>>>

\* C26: the cache only grows and its entries are write-once: a call of score
\* never removes or changes an entry, adds at most the key target + query and
\* only when that key held no Score before, and stores a failed match as the
\* sentinel; every entry holds the result computed by the first call that
\* produced its key.
C26_CacheIsWriteOnce ==
    [][/\ \A k \in DOMAIN cache.entries :
            k \in DOMAIN cache'.entries /\ cache'.entries[k] = cache.entries[k]
       /\ (DOMAIN cache'.entries) \ (DOMAIN cache.entries) \subseteq {target' \o query'}
       /\ (Len(query') > 0 /\ Len(target') >= Len(query')) =>
            /\ (target' \o query') \in DOMAIN cache'.entries
            /\ (target' \o query') \notin DOMAIN cache.entries =>
                    cache'.entries[target' \o query'] = score(target', query', undefinedCache).res
       /\ \A k \in DOMAIN cache'.entries :
            \E p \in DOMAIN scored' :
                /\ p[1] \o p[2] = k
                /\ cache'.entries[k] = score(p[1], p[2], undefinedCache).res]_vars

\* a failed match stored as the sentinel next to the Score of a match
C26_Witness ==
    /\ pc = "done"
    /\ Len(query) > 0
    /\ Len(target) >= Len(query)
    /\ res = <<0, <<>>>>
    /\ cache.entries[target \o query] = <<0, <<>>>>
    /\ \E k \in DOMAIN cache.entries : cache.entries[k][1] > 0

----------------------------------------------------------------------------
(* Specification SpecFile: one call of scoreFile, without a cache or with   *)
(* an empty one                                                            *)

FileAlphabet == {ch_h, ch_H, ch_w}
MaxBasenameLen == 2
MaxPathLen == 3
MaxFileQueryLen == 2

FileStrings(n) == UNION {[1..k -> FileAlphabet] : k \in 0..n}

\* the absent file, and every pair of a basename and a path (each possibly
\* empty) an accessor can yield
Files ==
    {NoFile} \cup
    {[null |-> FALSE, basename |-> b, path |-> p] :
        b \in FileStrings(MaxBasenameLen), p \in FileStrings(MaxPathLen)}
FileQueries == FileStrings(MaxFileQueryLen)

InitFile ==
    /\ pc = "call"
    /\ file \in Files
    /\ query \in FileQueries
    /\ fres = NoFileResult
    /\ prev = NoFileResult
    /\ cache \in {undefinedCache, emptyCache}
    /\ target = <<>>
    /\ res = NO_SCORE
    /\ scored = <<>>
    /\ files = <<>>
    /\ cmp = <<>>
    /\ WorkbenchNotConstructed

ScoreFileCall ==
    /\ pc = "call"
    /\ LET out == scoreFile(file, query, cache)
       IN  /\ fres' = [ret |-> out.ret, res |-> out.res]
           /\ cache' = out.cache
    /\ pc' = "done"
    /\ UNCHANGED <<file, query, prev, target, res, scored, files, cmp>>
    /\ UNCHANGED workbenchVars

NextFile == ScoreFileCall

SpecFile == InitFile /\ [][NextFile]_vars

\* C9: tier 1: whenever query equals the file's path ignoring case (file,
\* basename and path present), scoreFile returns score 2^18 with pathMatch the
\* single range [0, len(path)) and basenameMatch the single range
\* [0, len(basename)), whether or not the basename starts with the query.
C9_IdentityTier ==
    (/\ pc = "done"
     /\ ~file.null
     /\ Len(file.basename) > 0
     /\ Len(file.path) > 0
     /\ toLowerCase(query) = toLowerCase(file.path))
    => fres.res = [score |-> 2^18,
                   pathMatch |-> <<[start |-> 0, end |-> Len(file.path)]>>,
                   basenameMatch |-> <<[start |-> 0, end |-> Len(file.basename)]>>]

\* an identity match in another case than the path's, on a file whose basename
\* starts with the query
C9_Witness ==
    /\ pc = "done"
    /\ ~file.null
    /\ Len(file.basename) > 0
    /\ query # file.path
    /\ toLowerCase(query) = toLowerCase(file.path)
    /\ startsWithIgnoreCase(file.basename, query)
    /\ fres.res.score = 2^18

\* C10: tier 2: when the query is not the path (ignoring case) and the basename
\* starts with the query ignoring case, scoreFile returns score 2^17 with
\* basenameMatch the single range [0, len(query)) and no pathMatch, and the
\* subsequence scorer has not run (an empty cache handed in is still empty).
C10_BasenamePrefixTier ==
    (/\ pc = "done"
     /\ ~file.null
     /\ Len(file.basename) > 0
     /\ Len(file.path) > 0
     /\ toLowerCase(query) # toLowerCase(file.path)
     /\ Len(query) <= Len(file.basename)
     /\ \A i \in 1..Len(query) : toLowerCase(query)[i] = toLowerCase(file.basename)[i])
    => /\ fres.res = [score |-> 2^17, basenameMatch |-> <<[start |-> 0, end |-> Len(query)]>>]
       /\ cache.defined => DOMAIN cache.entries = {}

\* a basename prefix match, in another case than the basename's, with a cache
\* handed in, on a file whose path would match the query as well
C10_Witness ==
    /\ pc = "done"
    /\ cache.defined
    /\ Len(query) > 0
    /\ fres.ret = "basenamePrefix"
    /\ SubSeq(file.basename, 1, Len(query)) # query
    /\ score(file.path, query, undefinedCache).res[1] > 0

\* the file of the call has a basename and a path, the query is not its path
\* and its basename does not start with the query (both ignoring case)
ReachesSubsequenceTiers ==
    /\ ~file.null
    /\ Len(file.basename) > 0
    /\ Len(file.path) > 0
    /\ toLowerCase(query) # toLowerCase(file.path)
    /\ ~startsWithIgnoreCase(file.basename, query)

\* C11: tiers 3 and 4: when neither identity nor basename prefix applies, a
\* non-zero score(basename, query) gives that score + 2^16 with basenameMatch
\* only, and the path is not scored (a cache handed in empty holds the key of
\* the basename only); when the basename scores 0, a non-zero
\* score(path, query) is returned unchanged with pathMatch only; when both are
\* 0 the result is score 0 with neither match field.
C11_SubsequenceTiers ==
    (pc = "done" /\ ReachesSubsequenceTiers) =>
        LET ofBasename == score(file.basename, query, undefinedCache).res
            ofPath == score(file.path, query, undefinedCache).res
        IN  IF ofBasename[1] # 0
            THEN /\ fres.res = [score |-> ofBasename[1] + 2^16,
                                basenameMatch |-> createMatches(ofBasename[2])]
                 /\ cache.defined => DOMAIN cache.entries = {file.basename \o query}
            ELSE IF ofPath[1] # 0
            THEN fres.res = [score |-> ofPath[1], pathMatch |-> createMatches(ofPath[2])]
            ELSE fres.res = [score |-> 0]

\* a basename match returned with a cache handed in, on a file whose path
\* matches the query as well and would get another cache key
C11_Witness ==
    /\ pc = "done"
    /\ cache.defined
    /\ fres.ret = "basenameScore"
    /\ file.path # file.basename
    /\ score(file.path, query, undefinedCache).res[1] > 0

\* C12: for an empty query scoreFile returns the zero-score sentinel (score 0,
\* no basenameMatch, no pathMatch) for every file.
C12_EmptyQuerySentinel ==
    (pc = "done" /\ Len(query) = 0) => fres.res = [score |-> 0]

\* C13: scoreFile returns the sentinel (score 0, no basenameMatch, no
\* pathMatch) whenever the file is absent or its basename or path is empty or
\* absent, for every query, and leaves the cache as it was handed in.
C13_AbsentFileSentinel ==
    (pc = "done" /\ (file.null \/ Len(file.basename) = 0 \/ Len(file.path) = 0)) =>
        /\ fres.res = [score |-> 0]
        /\ DOMAIN cache.entries = {}

\* a file without basename whose path is the query, scored with a cache
C13_Witness ==
    /\ pc = "done"
    /\ cache.defined
    /\ ~file.null
    /\ Len(file.basename) = 0
    /\ Len(query) > 0
    /\ file.path = query
    /\ fres.ret = "noName"

RECURSIVE totalLength(_, _)
totalLength(ranges, n) ==
    IF n = 0 THEN 0 ELSE totalLength(ranges, n - 1) + (ranges[n].end - ranges[n].start)

\* C18: the match ranges of a subsequence match (tiers 3 and 4) are the
\* matched positions coalesced into maximal runs: each range is non-empty, the
\* end of a range is below the start of the next, the union of the half-open
\* ranges is the set of matched positions, and their total length is the
\* length of the query.
C18_MatchRangesAreMaximalRuns ==
    (pc = "done" /\ fres.ret \in {"basenameScore", "pathScore"}) =>
        LET ranges == IF fres.ret = "basenameScore" THEN fres.res.basenameMatch
                      ELSE fres.res.pathMatch
            scoredString == IF fres.ret = "basenameScore" THEN file.basename ELSE file.path
            positions == score(scoredString, query, undefinedCache).res[2]
        IN  /\ \A k \in 1..Len(ranges) : ranges[k].start < ranges[k].end
            /\ \A k \in 1..(Len(ranges) - 1) : ranges[k].end < ranges[k + 1].start
            /\ UNION {ranges[k].start..(ranges[k].end - 1) : k \in 1..Len(ranges)}
                    = {positions[i] : i \in 1..Len(positions)}
            /\ totalLength(ranges, Len(ranges)) = Len(query)

\* a path match of two adjacent positions, reported as one range
C18_Witness ==
    /\ pc = "done"
    /\ fres.ret = "pathScore"
    /\ Len(query) = 2
    /\ Len(fres.res.pathMatch) = 1
    /\ fres.res.pathMatch[1].end = fres.res.pathMatch[1].start + 2

----------------------------------------------------------------------------
(* Specification SpecTiers: two calls of scoreFile, one after the other,   *)
(* without a cache; of the first call the caller keeps the score and the   *)
(* return statement taken.  The inputs are those of SpecFile and two files *)
(* with a name of more than LongLen characters.                            *)

LongLen == 4682

dashes(n) == <<>> \o [i \in 1..n |-> ch_dash]

\* 'h-----...' as basename and path, and '-----...h' as path of the file 'h'
LongFiles ==
    {[null |-> FALSE, basename |-> <<ch_h>> \o dashes(LongLen), path |-> <<ch_h>> \o dashes(LongLen)],
     [null |-> FALSE, basename |-> <<ch_h>>, path |-> dashes(LongLen) \o <<ch_h>>]}

TierInputs == (Files \X FileQueries) \cup (LongFiles \X {dashes(LongLen)})

InitTiers ==
    /\ pc = "idle"
    /\ file = NoFile
    /\ query = <<>>
    /\ fres = NoFileResult
    /\ prev = NoFileResult
    /\ cache = undefinedCache
    /\ target = <<>>
    /\ res = NO_SCORE
    /\ scored = <<>>
    /\ files = <<>>
    /\ cmp = <<>>
    /\ WorkbenchNotConstructed

TierCall(f, q) ==
    /\ pc = "idle"
    /\ LET out == scoreFile(f, q, cache)
       IN  /\ fres' = [ret |-> out.ret, res |-> out.res]
           /\ cache' = out.cache
    /\ file' = f
    /\ query' = q
    /\ pc' = "done"
    /\ UNCHANGED <<prev, target, res, scored, files, cmp>>
    /\ UNCHANGED workbenchVars

\* the caller keeps the first result and is ready for the second call
TierKeep ==
    /\ pc = "done"
    /\ prev = NoFileResult
    /\ prev' = [ret |-> fres.ret, res |-> [score |-> fres.res.score]]
    /\ file' = NoFile
    /\ query' = <<>>
    /\ fres' = NoFileResult
    /\ pc' = "idle"
    /\ UNCHANGED <<cache, target, res, scored, files, cmp>>
    /\ UNCHANGED workbenchVars

NextTiers ==
    \/ pc = "idle" /\ \E in \in TierInputs : TierCall(in[1], in[2])
    \/ TierKeep

SpecTiers == InitTiers /\ [][NextTiers]_vars

\* the tier of a return statement of scoreFile: 1 identity, 2 basename prefix,
\* 3 basename subsequence, 4 path subsequence, 5 no match
TierOf(ret) ==
    CASE ret = "identity" -> 1
      [] ret = "basenamePrefix" -> 2
      [] ret = "basenameScore" -> 3
      [] ret = "pathScore" -> 4
      [] OTHER -> 5

\* C2: for all files and queries the scoreFile scores are strictly ordered by
\* tier: a result of a higher tier (identity, then basename prefix, then
\* basename subsequence, then path subsequence, then no match) is greater than
\* every result of a lower tier.
C2_TiersStrictlyOrdered ==
    (pc = "done" /\ prev # NoFileResult) =>
        /\ TierOf(prev.ret) < TierOf(fres.ret) => prev.res.score > fres.res.score
        /\ TierOf(fres.ret) < TierOf(prev.ret) => fres.res.score > prev.res.score

----------------------------------------------------------------------------
(* Specification SpecCompare: three files are ranked for one query, without *)
(* a cache: compareFilesByScore is called on the pairs (A, B), (B, A),      *)
(* (B, C) and (A, C).  The files have a basename and a path; the three      *)
(* files and the query have at most MaxCompareChars characters together.    *)

CompareAlphabet == {ch_h, ch_w}
MaxCompareChars == 9

CompareStrings(lo, hi) == UNION {[1..k -> CompareAlphabet] : k \in lo..hi}

fileSize(f) == Len(f.basename) + Len(f.path)

\* the files of at most n characters
CompareFiles(n) ==
    {[null |-> FALSE, basename |-> x[1], path |-> x[2]] :
        x \in {y \in CompareStrings(1, n - 1) \X CompareStrings(1, n - 1) : Len(y[1]) + Len(y[2]) <= n}}

InitCompare ==
    /\ pc = "idle"
    /\ files = <<>>
    /\ query = <<>>
    /\ cmp = <<>>
    /\ cache = undefinedCache
    /\ file = NoFile
    /\ fres = NoFileResult
    /\ prev = NoFileResult
    /\ target = <<>>
    /\ res = NO_SCORE
    /\ scored = <<>>
    /\ WorkbenchNotConstructed

CompareCalls(fileA, fileB, fileC, q) ==
    /\ pc = "idle"
    /\ files' = <<fileA, fileB, fileC>>
    /\ query' = q
    /\ LET first == [ab |-> fileA, ba |-> fileB, bc |-> fileB, ac |-> fileA]
           second == [ab |-> fileB, ba |-> fileA, bc |-> fileC, ac |-> fileC]
       IN  cmp' = [pair \in {"ab", "ba", "bc", "ac"} |->
                      compareFilesByScore(first[pair], second[pair], q, cache).res]
    /\ pc' = "done"
    /\ UNCHANGED <<cache, file, fres, prev, target, res, scored>>
    /\ UNCHANGED workbenchVars

\* three files and a query of at most MaxCompareChars characters together
NextCompare ==
    /\ pc = "idle"
    /\ \E fileA \in CompareFiles(MaxCompareChars - 4) :
       \E fileB \in CompareFiles(MaxCompareChars - 2 - fileSize(fileA)) :
       \E fileC \in CompareFiles(MaxCompareChars - fileSize(fileA) - fileSize(fileB)) :
       \E q \in CompareStrings(0, MaxCompareChars - fileSize(fileA) - fileSize(fileB) - fileSize(fileC)) :
           CompareCalls(fileA, fileB, fileC, q)

SpecCompare == InitCompare /\ [][NextCompare]_vars

sign(n) == IF n < 0 THEN -1 ELSE IF n > 0 THEN 1 ELSE 0

\* C3: compareFilesByScore is a strict weak ordering for a fixed query: the
\* sign of compare(a, b) is the opposite of the sign of compare(b, a), and
\* compare(a, b) < 0 together with compare(b, c) < 0 implies compare(a, c) < 0.
C3_StrictWeakOrdering ==
    pc = "done" =>
        /\ sign(cmp.ab) = 0 - sign(cmp.ba)
        /\ (cmp.ab < 0 /\ cmp.bc < 0) => cmp.ac < 0

\* three different files with the same score, A before B before C, the first
\* pair told apart by the length of the basename only
C3_Witness ==
    /\ pc = "done"
    /\ cmp.ab < 0
    /\ cmp.bc < 0
    /\ scoreFile(files[1], query, undefinedCache).res.score
            = scoreFile(files[2], query, undefinedCache).res.score
    /\ scoreFile(files[2], query, undefinedCache).res.score
            = scoreFile(files[3], query, undefinedCache).res.score
    /\ Len(files[1].basename) < Len(files[2].basename)

EarlierStagesUndecided(scoreA, scoreB, lengthA, lengthB) ==
    /\ (scoreA = 2^18 \/ scoreB = 2^18) => scoreA = scoreB
    /\ (scoreA = 2^17 \/ scoreB = 2^17) => (scoreA = scoreB /\ lengthA = lengthB)
    /\ (scoreA > 2^16 \/ scoreB > 2^16) => (scoreA >= 2^16 /\ scoreB >= 2^16)

\* C17: stages 4 and 5: when the earlier stages do not decide, the file with
\* the higher scoreFile score sorts first; with equal scores the file with the
\* shorter basename sorts first; with equal basename lengths the file with the
\* shorter path sorts first; the string comparison against the query gives the
\* result only when scores, basename lengths and path lengths are all equal.
C17_ScoreThenLengths ==
    pc = "done" =>
        LET scoreA == scoreFile(files[1], query, undefinedCache).res.score
            scoreB == scoreFile(files[2], query, undefinedCache).res.score
            basenameA == files[1].basename
            basenameB == files[2].basename
            pathA == files[1].path
            pathB == files[2].path
        IN  EarlierStagesUndecided(scoreA, scoreB, Len(basenameA), Len(basenameB)) =>
                IF scoreA # scoreB THEN cmp.ab = (IF scoreA > scoreB THEN -1 ELSE 1)
                ELSE IF Len(basenameA) # Len(basenameB)
                THEN cmp.ab = Len(basenameA) - Len(basenameB)
                ELSE IF Len(pathA) # Len(pathB) THEN cmp.ab = Len(pathA) - Len(pathB)
                ELSE cmp.ab = (IF basenameA # basenameB
                               THEN compareAnything(basenameA, basenameB, query)
                               ELSE compareAnything(pathA, pathB, query))

\* two files below the basename threshold with different scores: only the
\* path of fileA matches the query, and fileB, which has the shorter path,
\* does not match at all
C17_Witness ==
    /\ pc = "done"
    /\ scoreFile(files[1], query, undefinedCache).ret = "pathScore"
    /\ scoreFile(files[2], query, undefinedCache).ret = "noScore"
    /\ Len(files[2].path) < Len(files[1].path)
    /\ cmp.ab = -1

----------------------------------------------------------------------------
(* Specification SpecRank: one call of compareFilesByScore on two files,    *)
(* without a cache.  The inputs are every pair of files and query of at     *)
(* most MaxRankChars characters together, and three pairs of files with     *)
(* names long enough for a subsequence score to reach the constants of      *)
(* tiers 1 and 2.                                                           *)

MaxRankChars == 6

RankStrings(lo, hi) == UNION {[1..k -> FileAlphabet] : k \in lo..hi}

\* the files of at most n characters, each with a basename and a path
RankFiles(n) ==
    {[null |-> FALSE, basename |-> x[1], path |-> x[2]] :
        x \in {y \in RankStrings(1, n - 1) \X RankStrings(1, n - 1) : Len(y[1]) + Len(y[2]) <= n}}

\* the query lengths at which a name of dashes with one gap ('w-w---...') and
\* with two gaps ('h-h-h---...') scores 2^17 and 2^18 - 2^16
PathTieLen == (BASENAME_PREFIX_SCORE + 24) \div 14
IdentityTieLen == (PATH_IDENTITY_SCORE - BASENAME_SCORE_THRESHOLD + 36) \div 14

repeated(ch, n) == <<>> \o [i \in 1..n |-> ch]

\* fileA, fileB and the query:
\*  - the query is the path of fileA, and the basename of fileB scores 2^18 - 2^16
\*  - the basename of fileA starts with the query, and the basename of fileB scores 2^16
\*  - the basename of fileA matches the query, and only the path of fileB does, scoring 2^17
LongRankInputs ==
    {<<[null |-> FALSE, basename |-> repeated(ch_w, IdentityTieLen + 4), path |-> dashes(IdentityTieLen)],
       [null |-> FALSE, basename |-> <<ch_h, ch_dash, ch_h, ch_dash, ch_h>> \o dashes(IdentityTieLen - 2), path |-> <<ch_w>>],
       dashes(IdentityTieLen)>>,
     <<[null |-> FALSE, basename |-> dashes(LongLen) \o <<ch_h, ch_h>>, path |-> <<ch_w>>],
       [null |-> FALSE, basename |-> <<ch_h>> \o dashes(LongLen), path |-> <<ch_w>>],
       dashes(LongLen)>>,
     <<[null |-> FALSE, basename |-> <<ch_h>> \o dashes(PathTieLen), path |-> <<ch_w>>],
       [null |-> FALSE, basename |-> <<ch_w>>, path |-> <<ch_w, ch_dash, ch_w>> \o dashes(PathTieLen - 1)],
       dashes(PathTieLen)>>}

InitRank ==
    /\ pc = "idle"
    /\ files = <<>>
    /\ query = <<>>
    /\ cmp = <<>>
    /\ cache = undefinedCache
    /\ file = NoFile
    /\ fres = NoFileResult
    /\ prev = NoFileResult
    /\ target = <<>>
    /\ res = NO_SCORE
    /\ scored = <<>>
    /\ WorkbenchNotConstructed

RankCall(fileA, fileB, q) ==
    /\ pc = "idle"
    /\ files' = <<fileA, fileB>>
    /\ query' = q
    /\ cmp' = [ab |-> compareFilesByScore(fileA, fileB, q, cache).res]
    /\ pc' = "done"
    /\ UNCHANGED <<cache, file, fres, prev, target, res, scored>>
    /\ UNCHANGED workbenchVars

NextRank ==
    /\ pc = "idle"
    /\ \/ \E fileA \in RankFiles(MaxRankChars - 2) :
          \E fileB \in RankFiles(MaxRankChars - fileSize(fileA)) :
          \E q \in RankStrings(0, MaxRankChars - fileSize(fileA) - fileSize(fileB)) :
              RankCall(fileA, fileB, q)
       \/ \E in \in LongRankInputs : RankCall(in[1], in[2], in[3])

SpecRank == InitRank /\ [][NextRank]_vars

\* the query is the path of the file, ignoring case
IsIdentityMatch(f, q) == toLowerCase(q) = toLowerCase(f.path)

\* the basename of the file starts with the query, ignoring case
IsBasenamePrefixMatch(f, q) == startsWithIgnoreCase(f.basename, q)

\* C14: stage 1: when exactly one of the two files is a path-identity match
\* for the query, that file sorts first (negative result when it is fileA,
\* positive when it is fileB), whatever the other file's score.
C14_IdentitySortsFirst ==
    pc = "done" =>
        /\ (IsIdentityMatch(files[1], query) /\ ~IsIdentityMatch(files[2], query)) => cmp.ab < 0
        /\ (IsIdentityMatch(files[2], query) /\ ~IsIdentityMatch(files[1], query)) => cmp.ab > 0

\* C15: stage 2: when neither file is an identity match and exactly one is a
\* basename-prefix match, the prefix match sorts first; when both are
\* basename-prefix matches with basenames of different length, the file with
\* the shorter basename sorts first.
C15_BasenamePrefixSortsFirst ==
    (/\ pc = "done"
     /\ ~IsIdentityMatch(files[1], query)
     /\ ~IsIdentityMatch(files[2], query))
    => LET prefixA == IsBasenamePrefixMatch(files[1], query)
           prefixB == IsBasenamePrefixMatch(files[2], query)
           lengthA == Len(files[1].basename)
           lengthB == Len(files[2].basename)
       IN  /\ (prefixA /\ ~prefixB) => cmp.ab < 0
           /\ (prefixB /\ ~prefixA) => cmp.ab > 0
           /\ (prefixA /\ prefixB /\ lengthA < lengthB) => cmp.ab < 0
           /\ (prefixA /\ prefixB /\ lengthA > lengthB) => cmp.ab > 0

\* the file matches the query on its basename: as a prefix or as a subsequence
MatchesOnBasename(f, q) ==
    \/ IsBasenamePrefixMatch(f, q)
    \/ score(f.basename, q, undefinedCache).res[1] > 0

\* the file matches the query on its path only, or not at all
MatchesOnPathAtMost(f, q) ==
    /\ ~IsIdentityMatch(f, q)
    /\ ~MatchesOnBasename(f, q)

\* C16: stage 3: a file that matches the query on its basename sorts before a
\* file that matches only on its path or not at all, however large the
\* subsequence score of the path is.
C16_BasenameMatchSortsFirst ==
    pc = "done" =>
        /\ (MatchesOnBasename(files[1], query) /\ MatchesOnPathAtMost(files[2], query)) => cmp.ab < 0
        /\ (MatchesOnBasename(files[2], query) /\ MatchesOnPathAtMost(files[1], query)) => cmp.ab > 0

\* C25: compareFilesByScore never ranks a lower-scored file ahead of a
\* higher-scored one: compare(a, b) < 0 implies
\* scoreFile(a).score >= scoreFile(b).score, and
\* scoreFile(a).score > scoreFile(b).score implies compare(a, b) < 0.
C25_CompareAgreesWithScore ==
    pc = "done" =>
        LET scoreA == scoreFile(files[1], query, undefinedCache).res.score
            scoreB == scoreFile(files[2], query, undefinedCache).res.score
        IN  /\ cmp.ab < 0 => scoreA >= scoreB
            /\ scoreA > scoreB => cmp.ab < 0

----------------------------------------------------------------------------
(* Specifications SpecShared and SpecPass: a call of scoreFile or of        *)
(* compareFilesByScore on a cache that is empty or was populated by an      *)
(* earlier call (pc = "warm").  In SpecShared the earlier call had any      *)
(* query; in SpecPass (one ranking pass) the cache is used with one query   *)
(* only.                                                                    *)

MaxSharedChars == 4
MaxPassChars == 5

SharedFiles == CompareFiles(MaxSharedChars)
SharedQueries == CompareStrings(0, MaxSharedChars - 2)

\* the files of one pass have at most MaxPassChars - 2 characters, two files
\* that are compared at most MaxPassChars together
PassFiles == CompareFiles(MaxPassChars - 2)
PassQueries == CompareStrings(0, MaxPassChars - 3)

\* an earlier scoreFile(f, accessor, q, cache) of the caller: what it leaves
\* in the cache
EarlierScoreFile(f, q) ==
    /\ pc = "idle"
    /\ cache' = scoreFile(f, q, cache).cache
    /\ pc' = "warm"
    /\ UNCHANGED <<query, file, fres, prev, target, res, scored, files, cmp>>
    /\ UNCHANGED workbenchVars

\* scoreFile(f, accessor, q, cache) on the shared cache
SharedScoreFile(f, q) ==
    /\ pc \in {"idle", "warm"}
    /\ LET out == scoreFile(f, q, cache)
       IN  /\ fres' = [ret |-> out.ret, res |-> out.res]
           /\ cache' = out.cache
    /\ file' = f
    /\ query' = q
    /\ pc' = "scoreFile"
    /\ UNCHANGED <<prev, target, res, scored, files, cmp>>
    /\ UNCHANGED workbenchVars

\* compareFilesByScore(fileA, fileB, accessor, q, cache) on the shared cache
SharedCompare(fileA, fileB, q) ==
    /\ pc \in {"idle", "warm"}
    /\ \E out \in {compareFilesByScore(fileA, fileB, q, cache)} :
            /\ cmp' = [ab |-> out.res]
            /\ cache' = out.cache
    /\ files' = <<fileA, fileB>>
    /\ query' = q
    /\ pc' = "compare"
    /\ UNCHANGED <<prev, target, res, scored, file, fres>>
    /\ UNCHANGED workbenchVars

InitShared ==
    /\ pc = "idle"
    /\ cache = emptyCache
    /\ query = <<>>
    /\ file = NoFile
    /\ fres = NoFileResult
    /\ prev = NoFileResult
    /\ files = <<>>
    /\ cmp = <<>>
    /\ target = <<>>
    /\ res = NO_SCORE
    /\ scored = <<>>
    /\ WorkbenchNotConstructed

NextShared ==
    /\ pc \in {"idle", "warm"}
    /\ \/ \E f \in SharedFiles : \E q \in SharedQueries : EarlierScoreFile(f, q)
       \/ \E f \in SharedFiles : \E q \in SharedQueries : SharedScoreFile(f, q)
       \/ \E fileA \in CompareFiles(MaxSharedChars - 2) :
          \E fileB \in CompareFiles(MaxSharedChars - fileSize(fileA)) :
          \E q \in SharedQueries : SharedCompare(fileA, fileB, q)

SpecShared == InitShared /\ [][NextShared]_vars

InitPass ==
    /\ pc = "idle"
    /\ query \in PassQueries
    /\ cache = emptyCache
    /\ file = NoFile
    /\ fres = NoFileResult
    /\ prev = NoFileResult
    /\ files = <<>>
    /\ cmp = <<>>
    /\ target = <<>>
    /\ res = NO_SCORE
    /\ scored = <<>>
    /\ WorkbenchNotConstructed

NextPass ==
    /\ pc \in {"idle", "warm"}
    /\ \/ \E f \in PassFiles : EarlierScoreFile(f, query)
       \/ \E f \in PassFiles : SharedScoreFile(f, query)
       \/ \E fileA \in PassFiles :
          \E fileB \in CompareFiles(MaxPassChars - fileSize(fileA)) :
              SharedCompare(fileA, fileB, query)

SpecPass == InitPass /\ [][NextPass]_vars

\* C22: scoreFile and compareFilesByScore are pure: for the same file or pair
\* of files and the same query they return the same output with no cache, with
\* an empty cache, and with a cache populated by any earlier scoring calls.
C22_PureWithAnyCache ==
    /\ pc = "scoreFile" => fres.res = scoreFile(file, query, undefinedCache).res
    /\ pc = "compare" =>
            cmp.ab = compareFilesByScore(files[1], files[2], query, undefinedCache).res

\* C23: within one ranking pass, a cache being used with a single query only,
\* scoreFile and compareFilesByScore return for every sequence of files the
\* results they return with no cache.
C23_PureWithinOnePass ==
    /\ pc = "scoreFile" =>
            LET uncached == scoreFile(file, query, undefinedCache)
            IN  fres = [ret |-> uncached.ret, res |-> uncached.res]
    /\ pc = "compare" =>
            /\ cmp.ab = compareFilesByScore(files[1], files[2], query, undefinedCache).res
            /\ cmp.ab = compareFilesByScore(files[1], files[2], query, emptyCache).res

\* the keys score reads and writes for the names of a file
keysOf(f, q) == {f.basename \o q, f.path \o q}

\* a comparison decided by the path scores, the match of fileA and the failed
\* match of fileB, on a cache that holds an entry of an earlier call
C23_Witness ==
    /\ pc = "compare"
    /\ Len(query) > 0
    /\ cmp.ab < 0
    /\ scoreFile(files[1], query, undefinedCache).ret = "pathScore"
    /\ scoreFile(files[2], query, undefinedCache).ret = "noScore"
    /\ \E k \in DOMAIN cache.entries : k \notin keysOf(files[1], query) \cup keysOf(files[2], query)

----------------------------------------------------------------------------
(* The scorer variables while a workbench object is exercised: no call of   *)
(* the scorer is running                                                    *)

ScorerIdle ==
    /\ pc = "idle"
    /\ cache = undefinedCache
    /\ target = <<>>
    /\ query = <<>>
    /\ res = NO_SCORE
    /\ file = NoFile
    /\ fres = NoFileResult
    /\ prev = NoFileResult
    /\ scored = <<>>
    /\ files = <<>>
    /\ cmp = <<>>

----------------------------------------------------------------------------
(* UntitledTextEditorInput (vs/workbench/common/editor)                     *)
(*                                                                          *)
(* editorInput is the record of the fields of the input: the constructor    *)
(* parameters hasAssociatedFilePath, preferredMode and preferredEncoding,   *)
(* cachedModel, modelResolve (whether the promise is set), disposed (the    *)
(* flag isDisposed() reads) and last, the method that ran last.  The model  *)
(* is the record of what the input reads from it: isDirty(), getMode() and  *)
(* getEncoding().                                                           *)

undefined == "undefined"
Modes == {"plaintext", "typescript"}
Encodings == {"utf8", "utf16le"}

\* cachedModel: UntitledTextEditorModel | null = null
NoModel == [null |-> TRUE, dirty |-> FALSE, mode |-> undefined, encoding |-> undefined]

\* createModel(): the model is created from preferredMode and preferredEncoding
createModel(input) ==
    [null |-> FALSE, dirty |-> FALSE, mode |-> input.preferredMode, encoding |-> input.preferredEncoding]

\* isDirty()
isDirty(input) ==
    IF ~input.cachedModel.null THEN input.cachedModel.dirty
    ELSE IF input.disposed THEN FALSE
    ELSE input.hasAssociatedFilePath

\* getMode()
getMode(input) ==
    IF ~input.cachedModel.null THEN input.cachedModel.mode ELSE input.preferredMode

\* getEncoding()
getEncoding(input) ==
    IF ~input.cachedModel.null THEN input.cachedModel.encoding ELSE input.preferredEncoding

\* constructor
InitInput ==
    /\ \E h \in BOOLEAN : \E mode \in Modes \cup {undefined} : \E encoding \in Encodings \cup {undefined} :
        editorInput = [hasAssociatedFilePath |-> h, preferredMode |-> mode, preferredEncoding |-> encoding,
                       cachedModel |-> NoModel, modelResolve |-> FALSE, disposed |-> FALSE,
                       last |-> "constructor"]
    /\ tunnelModel = NoObject
    /\ themeData = NoObject
    /\ ScorerIdle

\* resolve()
Resolve ==
    /\ editorInput' =
        IF editorInput.modelResolve
        THEN [editorInput EXCEPT !.last = "resolve"]
        ELSE [editorInput EXCEPT !.cachedModel = createModel(editorInput),
                                 !.modelResolve = TRUE,
                                 !.last = "resolve"]
    /\ UNCHANGED <<tunnelModel, themeData>>
    /\ UNCHANGED scorerVars

\* dispose()
Dispose ==
    /\ editorInput' = [editorInput EXCEPT !.cachedModel = NoModel,
                                          !.modelResolve = FALSE,
                                          !.disposed = TRUE,
                                          !.last = "dispose"]
    /\ UNCHANGED <<tunnelModel, themeData>>
    /\ UNCHANGED scorerVars

\* revert(): cachedModel.revert(), then dispose()
Revert ==
    /\ editorInput' = [editorInput EXCEPT !.cachedModel = NoModel,
                                          !.modelResolve = FALSE,
                                          !.disposed = TRUE,
                                          !.last = "revert"]
    /\ UNCHANGED <<tunnelModel, themeData>>
    /\ UNCHANGED scorerVars

\* setEncoding(encoding, mode)
SetEncoding(encoding) ==
    /\ editorInput' = [editorInput EXCEPT !.preferredEncoding = encoding,
                                          !.cachedModel = IF editorInput.cachedModel.null THEN @
                                                          ELSE [@ EXCEPT !.encoding = encoding],
                                          !.last = "setEncoding"]
    /\ UNCHANGED <<tunnelModel, themeData>>
    /\ UNCHANGED scorerVars

\* setMode(mode)
SetMode(mode) ==
    /\ editorInput' = [editorInput EXCEPT !.preferredMode = mode,
                                          !.cachedModel = IF editorInput.cachedModel.null THEN @
                                                          ELSE [@ EXCEPT !.mode = mode],
                                          !.last = "setMode"]
    /\ UNCHANGED <<tunnelModel, themeData>>
    /\ UNCHANGED scorerVars

\* the model the input holds changes its dirty state (it has loaded, its
\* content was edited or saved) and announces it with onDidChangeDirty
ModelChangeDirty ==
    /\ ~editorInput.cachedModel.null
    /\ editorInput' = [editorInput EXCEPT !.cachedModel.dirty = ~@,
                                          !.last = "onDidChangeDirty"]
    /\ UNCHANGED <<tunnelModel, themeData>>
    /\ UNCHANGED scorerVars

NextInput ==
    \/ Resolve
    \/ Dispose
    \/ Revert
    \/ \E encoding \in Encodings : SetEncoding(encoding)
    \/ \E mode \in Modes : SetMode(mode)
    \/ ModelChangeDirty

SpecInput == InitInput /\ [][NextInput]_vars

\* C27: a disposed UntitledTextEditorInput is never dirty: once dispose()
\* has run, directly or through revert(), isDirty() returns false in every
\* later state, also after a later resolve().
C27_DisposedNeverDirty ==
    editorInput.disposed => ~isDirty(editorInput)

----------------------------------------------------------------------------
(* TunnelModel (vs/workbench/services/remote/common/remoteExplorerService)  *)
(*                                                                          *)
(* tunnelModel is the record of the maps forwarded and detected (functions  *)
(* from address keys to Tunnel records), the forward() calls that wait for  *)
(* tunnelService.openTunnel, what storeForwarded() stored, and last: the    *)
(* handler or method that ran last with its arguments, the entry it read,   *)
(* changed or deleted, and the event it fired with its payload.  A value    *)
(* that may be undefined is a sequence of length 0 or 1.                    *)

Hosts == {"127.0.0.1", "10.0.0.5"}
Ports == {3000, 8080}
Names == {"web"}
LocalAddresses == {"localhost:49152"}
MaxPendingForwards == 1

\* host + ':' + port
hostAndPort(host, port) == <<host, ":", port>>

\* MakeAddress(host, port): the condition of the if is the assignment
\* host = '127.0.0.1', whose value is the non-empty string assigned
MakeAddress(host, port) ==
    LET assigned == "127.0.0.1"
        normalised == IF assigned # "" THEN "localhost" ELSE assigned
    IN  hostAndPort(normalised, port)

\* Map.has, Map.get, Map.set, Map.delete
has(map, key) == key \in DOMAIN map
get(map, key) == IF key \in DOMAIN map THEN <<map[key]>> ELSE <<>>
set(map, key, value) == [k \in DOMAIN map \cup {key} |-> IF k = key THEN value ELSE map[k]]
delete(map, key) == [k \in DOMAIN map \ {key} |-> map[k]]

\* Array.from(this.forwarded.values())
values(map) == {map[k] : k \in DOMAIN map}

\* storeForwarded(): what the storage holds afterwards
storeForwarded(model, forwarded) ==
    IF model.restoreForwardedPorts THEN values(forwarded) ELSE model.stored

\* the tunnels tunnelService reports: remote host and port, and a local
\* address that may be missing
RemoteTunnels ==
    [tunnelRemoteHost : Hosts, tunnelRemotePort : Ports, localAddress : LocalAddresses \cup {undefined}]

NoEvent == [event |-> "none", payload |-> <<>>]

\* constructor: both maps empty, restoreForwarded() finds nothing stored
InitTunnels ==
    /\ \E restore \in BOOLEAN :
        tunnelModel = [forwarded |-> <<>>, detected |-> <<>>, pending |-> {}, stored |-> {},
                       restoreForwardedPorts |-> restore,
                       last |-> [op |-> "constructor", host |-> "", port |-> 0, entry |-> <<>>,
                                 fired |-> NoEvent]]
    /\ editorInput = NoObject
    /\ themeData = NoObject
    /\ ScorerIdle

\* tunnelService.onTunnelOpened(tunnel => ...)
onTunnelOpened(tunnel) ==
    LET key == MakeAddress(tunnel.tunnelRemoteHost, tunnel.tunnelRemotePort)
        adds == (~has(tunnelModel.forwarded, key)) /\ tunnel.localAddress # undefined
        forwarded == IF adds
                     THEN set(tunnelModel.forwarded, key,
                              [remoteHost |-> tunnel.tunnelRemoteHost,
                               remotePort |-> tunnel.tunnelRemotePort,
                               localAddress |-> tunnel.localAddress,
                               name |-> undefined,
                               closeable |-> "true"])
                     ELSE tunnelModel.forwarded
    IN  /\ tunnelModel' = [tunnelModel EXCEPT
                !.forwarded = forwarded,
                !.stored = IF adds THEN storeForwarded(tunnelModel, forwarded) ELSE @,
                !.last = [op |-> "onTunnelOpened", host |-> tunnel.tunnelRemoteHost,
                          port |-> tunnel.tunnelRemotePort, entry |-> get(forwarded, key),
                          fired |-> [event |-> "onForwardPort", payload |-> get(forwarded, key)]]]
        /\ UNCHANGED <<editorInput, themeData>>
        /\ UNCHANGED scorerVars

\* tunnelService.onTunnelClosed(address => ...)
onTunnelClosed(host, port) ==
    LET key == MakeAddress(host, port)
        closes == has(tunnelModel.forwarded, key)
        forwarded == IF closes THEN delete(tunnelModel.forwarded, key) ELSE tunnelModel.forwarded
    IN  /\ tunnelModel' = [tunnelModel EXCEPT
                !.forwarded = forwarded,
                !.stored = IF closes THEN storeForwarded(tunnelModel, forwarded) ELSE @,
                !.last = [op |-> "onTunnelClosed", host |-> host, port |-> port,
                          entry |-> get(tunnelModel.forwarded, key),
                          fired |-> IF closes
                                    THEN [event |-> "onClosePort", payload |-> <<hostAndPort(host, port)>>]
                                    ELSE NoEvent]]
        /\ UNCHANGED <<editorInput, themeData>>
        /\ UNCHANGED scorerVars

\* forward(remote, local, name) up to the await of tunnelService.openTunnel
forward(host, port, name) ==
    LET key == MakeAddress(host, port)
        waits == ~has(tunnelModel.forwarded, key)
    IN  /\ waits => Cardinality(tunnelModel.pending) < MaxPendingForwards
        /\ tunnelModel' = [tunnelModel EXCEPT
                !.pending = IF waits THEN @ \cup {[key |-> key, host |-> host, port |-> port, name |-> name]}
                            ELSE @,
                !.last = [op |-> "forward", host |-> host, port |-> port,
                          entry |-> get(tunnelModel.forwarded, key), fired |-> NoEvent]]
        /\ UNCHANGED <<editorInput, themeData>>
        /\ UNCHANGED scorerVars

\* forward(remote, local, name) after the await: opened is the tunnel
\* openTunnel resolved with, or nothing
forwardOpened(call, opened) ==
    LET sets == opened # <<>> /\ opened[1].localAddress # undefined
        newForward == [remoteHost |-> opened[1].tunnelRemoteHost,
                       remotePort |-> opened[1].tunnelRemotePort,
                       localAddress |-> opened[1].localAddress,
                       name |-> call.name,
                       closeable |-> "true"]
        forwarded == IF sets THEN set(tunnelModel.forwarded, call.key, newForward)
                     ELSE tunnelModel.forwarded
    IN  /\ call \in tunnelModel.pending
        /\ tunnelModel' = [tunnelModel EXCEPT
                !.forwarded = forwarded,
                !.pending = @ \ {call},
                !.last = [op |-> "forwardOpened", host |-> call.host, port |-> call.port,
                          entry |-> get(forwarded, call.key),
                          fired |-> IF sets THEN [event |-> "onForwardPort", payload |-> <<newForward>>]
                                    ELSE NoEvent]]
        /\ UNCHANGED <<editorInput, themeData>>
        /\ UNCHANGED scorerVars

\* name(host, port, name)
name(host, port, newName) ==
    LET key == MakeAddress(host, port)
        inForwarded == has(tunnelModel.forwarded, key)
        inDetected == (~inForwarded) /\ has(tunnelModel.detected, key)
        forwarded == IF inForwarded
                     THEN [tunnelModel.forwarded EXCEPT ![key].name = newName]
                     ELSE tunnelModel.forwarded
        detected == IF inDetected
                    THEN [tunnelModel.detected EXCEPT ![key].name = newName]
                    ELSE tunnelModel.detected
    IN  /\ tunnelModel' = [tunnelModel EXCEPT
                !.forwarded = forwarded,
                !.detected = detected,
                !.stored = IF inForwarded THEN storeForwarded(tunnelModel, forwarded) ELSE @,
                !.last = [op |-> "name", host |-> host, port |-> port,
                          entry |-> IF inForwarded THEN get(forwarded, key)
                                    ELSE IF inDetected THEN get(detected, key) ELSE <<>>,
                          fired |-> IF inForwarded \/ inDetected
                                    THEN [event |-> "onPortName", payload |-> <<hostAndPort(host, port)>>]
                                    ELSE NoEvent]]
        /\ UNCHANGED <<editorInput, themeData>>
        /\ UNCHANGED scorerVars

\* address(host, port): the entry whose localAddress is returned
address(host, port) ==
    LET key == MakeAddress(host, port)
        found == IF has(tunnelModel.forwarded, key) THEN get(tunnelModel.forwarded, key)
                 ELSE get(tunnelModel.detected, key)
    IN  /\ tunnelModel' = [tunnelModel EXCEPT
                !.last = [op |-> "address", host |-> host, port |-> port,
                          entry |-> found, fired |-> NoEvent]]
        /\ UNCHANGED <<editorInput, themeData>>
        /\ UNCHANGED scorerVars

\* addEnvironmentTunnels(tunnels), called once, with one tunnel of the
\* remote environment
addEnvironmentTunnels(host, port, localAddress) ==
    LET key == MakeAddress(host, port)
        detected == set(tunnelModel.detected, key,
                        [remoteHost |-> host, remotePort |-> port, localAddress |-> localAddress,
                         name |-> undefined, closeable |-> "false"])
    IN  /\ tunnelModel.detected = <<>>
        /\ tunnelModel' = [tunnelModel EXCEPT
                !.detected = detected,
                !.last = [op |-> "addEnvironmentTunnels", host |-> host, port |-> port,
                          entry |-> get(detected, key), fired |-> NoEvent]]
        /\ UNCHANGED <<editorInput, themeData>>
        /\ UNCHANGED scorerVars

NextTunnels ==
    \/ \E tunnel \in RemoteTunnels : onTunnelOpened(tunnel)
    \/ \E host \in Hosts : \E port \in Ports : onTunnelClosed(host, port)
    \/ \E host \in Hosts : \E port \in Ports : \E n \in Names \cup {undefined} : forward(host, port, n)
    \/ \E call \in tunnelModel.pending :
            \/ forwardOpened(call, <<>>)
            \/ \E localAddress \in LocalAddresses \cup {undefined} :
                    forwardOpened(call, <<[tunnelRemoteHost |-> call.host, tunnelRemotePort |-> call.port,
                                           localAddress |-> localAddress]>>)
    \/ \E host \in Hosts : \E port \in Ports : \E n \in Names : name(host, port, n)
    \/ \E host \in Hosts : \E port \in Ports : address(host, port)
    \/ \E host \in Hosts : \E port \in Ports : \E localAddress \in LocalAddresses :
            addEnvironmentTunnels(host, port, localAddress)

SpecTunnels == InitTunnels /\ [][NextTunnels]_vars

\* the address the claim gives a host and a port: only '127.0.0.1' becomes
\* 'localhost'
addressOfHost(host, port) ==
    hostAndPort(IF host = "127.0.0.1" THEN "localhost" ELSE host, port)

\* C28: MakeAddress normalises only the host '127.0.0.1' to 'localhost' and
\* keeps every other host as given: every entry of forwarded and detected is
\* kept under the address of its own host and port, so two hosts with the
\* same port have separate entries, and name(), address() and the
\* tunnel-closed handler act only on the entry of the host they were given.
C28_SeparateEntriesPerHost ==
    /\ \A key \in DOMAIN tunnelModel.forwarded :
            key = addressOfHost(tunnelModel.forwarded[key].remoteHost, tunnelModel.forwarded[key].remotePort)
    /\ \A key \in DOMAIN tunnelModel.detected :
            key = addressOfHost(tunnelModel.detected[key].remoteHost, tunnelModel.detected[key].remotePort)
    /\ (tunnelModel.last.op \in {"name", "address", "onTunnelClosed"} /\ tunnelModel.last.entry # <<>>) =>
            addressOfHost(tunnelModel.last.entry[1].remoteHost, tunnelModel.last.entry[1].remotePort)
                = addressOfHost(tunnelModel.last.host, tunnelModel.last.port)

\* C29: every onForwardPort event carries a Tunnel, never an absent value,
\* that is in the forwarded map under the address key of the opened tunnel
\* when the event fires, also when the tunnel was opened without a local
\* address.
C29_ForwardPortCarriesTunnel ==
    tunnelModel.last.fired.event = "onForwardPort" =>
        /\ tunnelModel.last.fired.payload # <<>>
        /\ LET key == MakeAddress(tunnelModel.last.host, tunnelModel.last.port)
           IN  /\ has(tunnelModel.forwarded, key)
               /\ tunnelModel.forwarded[key] = tunnelModel.last.fired.payload[1]

----------------------------------------------------------------------------
(* ColorThemeData (vs/workbench/services/themes/common/colorThemeData)      *)
(*                                                                          *)
(* themeData is the record of the fields of the theme: location (whether    *)
(* it is set), isLoaded, themeTokenColors, customTokenColors, colorMap,     *)
(* tokenStylingRules, the caches textMateThemingRules and tokenColorIndex,  *)
(* pending (the loads whose promise is not settled) and last: the method    *)
(* or callback that ran last, what it returned and, for the callback of a   *)
(* load, the data it loaded.  A value that may be undefined is a sequence   *)
(* of length 0 or 1.  A color is its '#rrggbb' string, a Color object the   *)
(* record of it.  customColorMap and customTokenStylingRules keep their     *)
(* initial value, empty.                                                    *)

MaxLoads == 2

Color(hex) == [rgba |-> hex]

\* Color.Format.CSS.formatHexA(color, true)
formatHexA(color) == color.rgba

\* String.prototype.toUpperCase on the color strings of the model
colorToUpperCase(color) ==
    CASE color = "#d4d4d4" -> "#D4D4D4"
      [] color = "#1e1e1e" -> "#1E1E1E"
      [] color = "#aabbcc" -> "#AABBCC"
      [] color = "#6a9955" -> "#6A9955"
      [] color = "#6796e6" -> "#6796E6"
      [] color = "#cd9731" -> "#CD9731"
      [] color = "#f44747" -> "#F44747"
      [] color = "#b267e6" -> "#B267E6"
      [] color = "#569cd6" -> "#569CD6"
      [] OTHER -> color

\* normalizeColorForIndex(color)
normalizeColorForIndex(color) ==
    colorToUpperCase(IF color \in STRING THEN color ELSE formatHexA(color))

\* an ITextMateThemingRule: scope (may be undefined) and settings.foreground
Rule(scope, foreground) == [scope |-> scope, settings |-> [foreground |-> foreground]]

editorForeground == "editor.foreground"
editorBackground == "editor.background"

\* getDefault(colorId): the defaults of the color registry
getDefault(colorId) ==
    IF colorId = editorForeground THEN Color("#d4d4d4") ELSE Color("#1e1e1e")

\* defaultThemeColors['dark']
defaultThemeColors ==
    << Rule("token.info-token", "#6796e6"),
       Rule("token.warn-token", "#cd9731"),
       Rule("token.error-token", "#f44747"),
       Rule("token.debug-token", "#b267e6") >>

\* what _loadColorTheme leaves in result for the theme files of the model
ThemeFiles ==
    [ colors : { <<>>, (editorForeground :> Color("#aabbcc")) },
      textMateRules : { <<>>,
                        << Rule("comment", "#6a9955") >>,
                        << Rule("comment", "#6a9955"), Rule("token.info-token", "#569cd6") >>,
                        << Rule(undefined, "#569cd6") >> },
      stylingRules : { <<>>, << << "#569cd6" >> >> } ]

\* the rules of the setting editor.tokenColorCustomizations.textMateRules
CustomTokenColors == { <<>>, << Rule("comment", "#f44747") >> }

\* getColor(colorId): customColorMap is empty
getColor(data, colorId) ==
    IF colorId \in DOMAIN data.colorMap THEN data.colorMap[colorId] ELSE getDefault(colorId)

\* addRule applied to the rules of a list
RECURSIVE addRules(_, _)
addRules(result, rules) ==
    IF rules = <<>> THEN result
    ELSE LET rule == Head(rules)
         IN  addRules(IF rule.scope # undefined THEN Append(result, rule) ELSE result, Tail(rules))

hasInfoToken(rules) ==
    \E i \in 1..Len(rules) : rules[i].scope = "token.info-token"

\* get tokenColors(), the rules it builds when textMateThemingRules is unset
buildTokenColors(data) ==
    LET first == [scope |-> undefined,
                  settings |-> [foreground |-> formatHexA(getColor(data, editorForeground)),
                                background |-> formatHexA(getColor(data, editorBackground))]]
        withTheme == addRules(<<first>>, data.themeTokenColors)
        withCustom == addRules(withTheme, data.customTokenColors)
    IN  IF ~(hasInfoToken(addRules(<<>>, data.themeTokenColors)) \/ hasInfoToken(addRules(<<>>, data.customTokenColors)))
        THEN addRules(withCustom, defaultThemeColors)
        ELSE withCustom

\* get tokenColors(): the rules returned
tokenColors(data) ==
    IF data.textMateThemingRules # <<>> THEN data.textMateThemingRules[1] ELSE buildTokenColors(data)

\* TokenColorIndex.add(color) on the array _id2color, ids counting from 1
indexAdd(index, color) ==
    LET normal == normalizeColorForIndex(color)
    IN  IF \E i \in 1..Len(index) : index[i] = normal THEN index ELSE Append(index, normal)

RECURSIVE indexAddAll(_, _)
indexAddAll(index, colors) ==
    IF colors = <<>> THEN index ELSE indexAddAll(indexAdd(index, Head(colors)), Tail(colors))

\* the colors of a rule: settings.foreground, then settings.background
RECURSIVE ruleColors(_)
ruleColors(rules) ==
    IF rules = <<>> THEN <<>>
    ELSE LET settings == Head(rules).settings
         IN  <<settings.foreground>>
                \o (IF "background" \in DOMAIN settings THEN <<settings.background>> ELSE <<>>)
                \o ruleColors(Tail(rules))

\* getTokenColorIndex(), the index it builds when tokenColorIndex is unset;
\* the token classification registry has no default rule with a color
buildTokenColorIndex(data) ==
    LET fromRules == indexAddAll(<<>>, ruleColors(tokenColors(data)))
    IN  IF data.tokenStylingRules # <<>>
        THEN indexAddAll(fromRules, data.tokenStylingRules[1])
        ELSE fromRules

\* getTokenColorIndex(): the index returned
getTokenColorIndex(data) ==
    IF data.tokenColorIndex # <<>> THEN data.tokenColorIndex[1] ELSE buildTokenColorIndex(data)

\* clearCaches(); the scope matchers are not part of the model
clearCaches(data) ==
    [data EXCEPT !.tokenColorIndex = <<>>, !.textMateThemingRules = <<>>]

NoLoad == [colors |-> <<>>, textMateRules |-> <<>>, stylingRules |-> <<>>]

\* createUnloadedTheme(id), with or without a location
InitTheme ==
    /\ \E hasLocation \in BOOLEAN :
        themeData = [location |-> hasLocation, isLoaded |-> FALSE,
                     themeTokenColors |-> <<>>, customTokenColors |-> <<>>,
                     colorMap |-> <<>>, tokenStylingRules |-> <<>>,
                     textMateThemingRules |-> <<>>, tokenColorIndex |-> <<>>,
                     pending |-> 0,
                     last |-> [op |-> "createUnloadedTheme", loaded |-> NoLoad]]
    /\ editorInput = NoObject
    /\ tunnelModel = NoObject
    /\ ScorerIdle

\* load(), to the call of _loadColorTheme
load(data) ==
    IF ~data.location THEN data
    ELSE [clearCaches([data EXCEPT !.themeTokenColors = <<>>]) EXCEPT !.pending = @ + 1]

\* ensureLoaded(extensionResourceLoaderService)
ensureLoaded ==
    /\ (themeData.location /\ ~themeData.isLoaded) => themeData.pending < MaxLoads
    /\ themeData' = [(IF ~themeData.isLoaded THEN load(themeData) ELSE themeData)
                        EXCEPT !.last = [op |-> "ensureLoaded", loaded |-> NoLoad]]
    /\ UNCHANGED <<editorInput, tunnelModel>>
    /\ UNCHANGED scorerVars

\* reload(extensionResourceLoaderService)
reload ==
    /\ themeData.location => themeData.pending < MaxLoads
    /\ themeData' = [load(themeData) EXCEPT !.last = [op |-> "reload", loaded |-> NoLoad]]
    /\ UNCHANGED <<editorInput, tunnelModel>>
    /\ UNCHANGED scorerVars

\* load(): the callback of _loadColorTheme(...).then
loadResolved(data, result) ==
    [data EXCEPT !.isLoaded = TRUE,
                 !.tokenStylingRules = result.stylingRules,
                 !.colorMap = result.colors,
                 !.themeTokenColors = result.textMateRules]

\* the promise of a load resolves with the data of the theme file
LoadResolved(result) ==
    /\ themeData.pending > 0
    /\ themeData' = [loadResolved(themeData, result) EXCEPT
                        !.pending = @ - 1,
                        !.last = [op |-> "loadResolved", loaded |-> result]]
    /\ UNCHANGED <<editorInput, tunnelModel>>
    /\ UNCHANGED scorerVars

\* the promise of a load rejects: the theme file cannot be read or parsed
LoadRejected ==
    /\ themeData.pending > 0
    /\ themeData' = [themeData EXCEPT !.pending = @ - 1,
                                      !.last = [op |-> "loadRejected", loaded |-> NoLoad]]
    /\ UNCHANGED <<editorInput, tunnelModel>>
    /\ UNCHANGED scorerVars

\* a read of tokenColors
ReadTokenColors ==
    /\ themeData' = [themeData EXCEPT !.textMateThemingRules = <<tokenColors(themeData)>>,
                                      !.last = [op |-> "tokenColors", loaded |-> NoLoad]]
    /\ UNCHANGED <<editorInput, tunnelModel>>
    /\ UNCHANGED scorerVars

\* a read of tokenColorMap
ReadTokenColorMap ==
    /\ themeData' = [themeData EXCEPT
                        !.textMateThemingRules = IF themeData.tokenColorIndex # <<>> THEN @
                                                 ELSE <<tokenColors(themeData)>>,
                        !.tokenColorIndex = <<getTokenColorIndex(themeData)>>,
                        !.last = [op |-> "tokenColorMap", loaded |-> NoLoad]]
    /\ UNCHANGED <<editorInput, tunnelModel>>
    /\ UNCHANGED scorerVars

\* setCustomTokenColors(customTokenColors)
setCustomTokenColors(rules) ==
    /\ themeData' = [clearCaches([themeData EXCEPT !.customTokenColors = addRules(<<>>, rules)])
                        EXCEPT !.last = [op |-> "setCustomTokenColors", loaded |-> NoLoad]]
    /\ UNCHANGED <<editorInput, tunnelModel>>
    /\ UNCHANGED scorerVars

NextTheme ==
    \/ ensureLoaded
    \/ reload
    \/ \E result \in ThemeFiles : LoadResolved(result)
    \/ LoadRejected
    \/ ReadTokenColors
    \/ ReadTokenColorMap
    \/ \E rules \in CustomTokenColors : setCustomTokenColors(rules)

SpecTheme == InitTheme /\ [][NextTheme]_vars

\* the rules of a list that tokenColors takes over: those with a scope
scopedRules(rules) == {rules[i] : i \in {j \in 1..Len(rules) : rules[j].scope # undefined}}

contains(list, x) == \E i \in 1..Len(list) : list[i] = x

\* C30: once the promise returned by ensureLoaded or reload resolves, the
\* derived caches are consistent with the loaded data: tokenColors contains
\* the rules of the newly loaded theme and the token color index the colors
\* of tokenColors, also when tokenColors or tokenColorMap was read while the
\* load was in flight.
C30_CachesFollowLoadedData ==
    themeData.last.op = "loadResolved" =>
        /\ \A rule \in scopedRules(themeData.last.loaded.textMateRules) :
                contains(tokenColors(themeData), rule)
        /\ \A rule \in scopedRules(themeData.last.loaded.textMateRules) :
                contains(getTokenColorIndex(themeData), normalizeColorForIndex(rule.settings.foreground))

====
